---------------------------- MODULE Spec2Model ----------------------------
(***************************************************************************)
(* A model of the backend of the multi-agent demo: the finance agent       *)
(* (src/backend/agents/finance), the Flask route layer (src/backend/app.py)*)
(* and the education blueprint (src/backend/educational_agent).            *)
(*                                                                         *)
(* Text is modelled as a sequence of one-character strings, so that        *)
(* str.strip() and str.upper() are computed, not assumed.  Large integers  *)
(* (market capitalisations reach 10^12 and more) are modelled as sequences *)
(* of base-1000 groups, most significant first, as in 1,000,000 =          *)
(* <<1, 0, 0>>; zero is the empty sequence.                                *)
(***************************************************************************)
EXTENDS Integers, Sequences, FiniteSets, TLC

VARIABLES
    (* ---- finance agent: one call of process_tickers / process_file ---- *)
    env,          \* what the market-data adapter and the chart library can do in this run
    fin_req,      \* the request being served: route, raw tickers
    fpc,          \* position in the call: "idle", "fetch", "analyze", "done"
    tickers,      \* the normalised, truncated list handed to _analyze_tickers
    ti,           \* index (1-based) of the ticker of the current loop iteration
    retry_count,  \* local retry_count of the current iteration
    stock,        \* local stock: 0 for None, else the index of the ticker it was built for
    hist,         \* local hist: survives from one loop iteration to the next
    results,      \* local results
    charts,       \* local charts
    events,       \* log of adapter calls and sleeps, in order
    fin_resp,     \* what the entry point returned
    (* ---- document routes: /api/process_document and /api/summarize ---- *)
    mode,           \* "serial": one request at a time; "race": two threads; "off"
    processed_docs, \* the module-level dict: filename -> chunk list
    tmp_files,      \* the temp files that exist, named by the thread that made them
    reqs,           \* per thread: the request it serves, its locals and its response
    (* ---- prompt routes: marketing, healthcare, education ---- *)
    rt,             \* the last request of a prompt route, its external calls, its response
    (* ---- module state of app.py ---- *)
    registry        \* the dict agent_registry

finVars == <<env, fin_req, fpc, tickers, ti, retry_count, stock, hist,
             results, charts, events, fin_resp>>

docVars == <<mode, processed_docs, tmp_files, reqs>>

vars == <<finVars, docVars, rt, registry>>

\* no handler assigns agent_registry or an item of it (app.py lines 89-438);
\* the variant deletes the entry of the healthcare agent
RegistryKept_Drop ==
    registry' = [a \in DOMAIN registry \ {"healthcare"} |-> registry[a]]

RegistryKept == registry' = registry

-----------------------------------------------------------------------------
(* Bounds of the model. *)

MaxList == 6        \* longest raw ticker list of the batch scenario
MaxRetryList == 2   \* longest raw ticker list of the retry scenario
MaxGroups == 5      \* most base-1000 groups of a market capitalisation
MaxChunks == 2      \* most chunks of an uploaded document
MaxText == 3        \* most tokens of a chat completion

-----------------------------------------------------------------------------
(* Text. *)

LowerChars == <<"a", "b", "e", "n", "o">>
UpperChars == <<"A", "B", "E", "N", "O">>

\* str.upper() on one character
UpperChar(c) ==
    IF \E k \in 1..Len(LowerChars) : LowerChars[k] = c
    THEN UpperChars[CHOOSE k \in 1..Len(LowerChars) : LowerChars[k] = c]
    ELSE c

\* str.upper()
Upper(s) == [k \in 1..Len(s) |-> UpperChar(s[k])]

RECURSIVE LStrip(_)
LStrip(s) == IF s # <<>> /\ Head(s) = " " THEN LStrip(Tail(s)) ELSE s

RECURSIVE RStrip(_)
RStrip(s) ==
    IF s # <<>> /\ s[Len(s)] = " " THEN RStrip(SubSeq(s, 1, Len(s) - 1)) ELSE s

\* str.strip()
Strip(s) == RStrip(LStrip(s))

(* A raw entry of a ticker list: a JSON null / Python None, a float NaN   *)
(* (a blank CSV cell), or a string.                                       *)
NoneVal == [kind |-> "none", s |-> <<>>]
NanVal == [kind |-> "nan", s |-> <<>>]
StrVal(s) == [kind |-> "str", s |-> s]

\* Python truthiness of an entry (`if ticker:`)
Truthy(e) == e.kind = "nan" \/ (e.kind = "str" /\ e.s # <<>>)

\* str(ticker)
Str(e) ==
    CASE e.kind = "none" -> <<"N", "o", "n", "e">>
      [] e.kind = "nan" -> <<"n", "a", "n">>
      [] OTHER -> e.s

\* str(ticker).strip().upper()
Normalize(e) == Upper(Strip(Str(e)))

RECURSIVE SelectSeqBy(_, _)
\* [Normalize(e) for e in list if Keep(e)], with Keep given by its name
SelectSeqBy(list, keep) ==
    IF list = <<>> THEN <<>>
    ELSE LET e == Head(list)
             k == IF keep = "truthy" THEN Truthy(e) ELSE e.kind # "none"
         IN  (IF k THEN <<Normalize(e)>> ELSE <<>>) \o SelectSeqBy(Tail(list), keep)

\* tickers[:n]
Take(s, n) == SubSeq(s, 1, IF Len(s) < n THEN Len(s) ELSE n)

TickerLimit == 5

\* variant: process_tickers without the limit of line 41
NormalizeTickers_NoLimit(list) == SelectSeqBy(list, "truthy")

\* process_tickers, lines 32-41: filter, normalise, truncate
NormalizeTickers(list) == Take(SelectSeqBy(list, "truthy"), TickerLimit)

\* process_file, lines 65-74: filter, normalise, truncate
NormalizeFileTickers(list) == Take(SelectSeqBy(list, "notnone"), TickerLimit)


-----------------------------------------------------------------------------
(* Numbers.  A market capitalisation is [neg, g]: a sign and base-1000     *)
(* groups, most significant first, without leading zero groups.            *)

Num(neg, g) == [neg |-> neg, g |-> g]
Zero == Num(FALSE, <<>>)

\* market_cap > 0
Positive(n) == ~n.neg /\ n.g # <<>>

RECURSIVE LexGE(_, _)
\* a >= b for two group sequences of the same length
LexGE(a, b) ==
    IF a = <<>> THEN TRUE
    ELSE IF Head(a) # Head(b) THEN Head(a) > Head(b)
    ELSE LexGE(Tail(a), Tail(b))

\* n >= t for a positive n and a positive threshold t given by its groups
GE(n, t) == Len(n.g) > Len(t) \/ (Len(n.g) = Len(t) /\ LexGE(n.g, t))

Million == <<1, 0, 0>>             \* 1_000_000
Billion == <<1, 0, 0, 0>>          \* 1_000_000_000
Trillion == <<1, 0, 0, 0, 0>>      \* 1_000_000_000_000

RECURSIVE Incr(_)
\* g + 1 on groups
Incr(g) ==
    IF g = <<>> THEN <<1>>
    ELSE IF g[Len(g)] < 999 THEN [g EXCEPT ![Len(g)] = @ + 1]
    ELSE Incr(SubSeq(g, 1, Len(g) - 1)) \o <<0>>

(* A formatted amount "$<int>.<frac><suffix>", or "N/A".                   *)
Money(int, frac, suffix) == [na |-> FALSE, int |-> int, frac |-> frac, suffix |-> suffix]
NA == [na |-> TRUE, int |-> <<>>, frac |-> 0, suffix |-> ""]

(* f"${market_cap / 1000^k:.2f}<suffix>" for a market cap of more than k   *)
(* groups: the k low groups are the fraction, rounded to two decimals.     *)
(* The leading dropped group d gives the hundredths d \div 10; the third   *)
(* decimal d % 10 decides the rounding (no input of the model is a tie).   *)
FormatDiv(g, k, suffix) ==
    LET int == SubSeq(g, 1, Len(g) - k)
        d == IF k = 0 THEN 0 ELSE g[Len(g) - k + 1]
        h == (d \div 10) + (IF d % 10 >= 5 THEN 1 ELSE 0)
    IN  IF h = 100 THEN Money(Incr(int), 0, suffix) ELSE Money(int, h, suffix)

\* variant: the M threshold compared with > instead of >=
MarketCapStr_Strict(market_cap) ==
    IF Positive(market_cap)
    THEN IF GE(market_cap, Trillion) THEN FormatDiv(market_cap.g, 4, "T")
         ELSE IF GE(market_cap, Billion) THEN FormatDiv(market_cap.g, 3, "B")
         ELSE IF GE(market_cap, Million) /\ market_cap.g # Million
         THEN FormatDiv(market_cap.g, 2, "M")
         ELSE FormatDiv(market_cap.g, 0, "")
    ELSE NA

\* agent.py lines 155-166: the market cap string of the report
MarketCapStr(market_cap) ==
    IF Positive(market_cap)
    THEN IF GE(market_cap, Trillion) THEN FormatDiv(market_cap.g, 4, "T")
         ELSE IF GE(market_cap, Billion) THEN FormatDiv(market_cap.g, 3, "B")
         ELSE IF GE(market_cap, Million) THEN FormatDiv(market_cap.g, 2, "M")
         ELSE FormatDiv(market_cap.g, 0, "")
    ELSE NA

\* utils.py format_market_cap
format_market_cap(market_cap) ==
    IF Positive(market_cap)
    THEN IF GE(market_cap, Trillion) THEN FormatDiv(market_cap.g, 4, "T")
         ELSE IF GE(market_cap, Billion) THEN FormatDiv(market_cap.g, 3, "B")
         ELSE IF GE(market_cap, Million) THEN FormatDiv(market_cap.g, 2, "M")
         ELSE FormatDiv(market_cap.g, 0, "")
    ELSE NA

(* A ratio is <<numerator, denominator>> with a positive denominator.      *)
\* a > p/q
GtRat(a, p, q) == a[1] * q > p * a[2]

\* variant: the division without the test of the volatility
Sharpe_Unguarded(annualized_return, volatility) == <<annualized_return, volatility>>

\* agent.py line 146: annualized_return / volatility if volatility > 0 else 0
Sharpe(annualized_return, volatility) ==
    IF volatility > 0 THEN <<annualized_return, volatility>> ELSE <<0, 1>>

\* utils.py calculate_metrics, line 9: its sharpe_ratio
calculate_metrics(annual_return, annual_volatility) ==
    IF annual_volatility > 0 THEN <<annual_return, annual_volatility>> ELSE <<0, 1>>

StrongBuy == "**STRONG BUY** - Excellent risk-adjusted returns"
Buy == "**BUY** - Good risk-adjusted returns"
Hold == "**HOLD** - Positive but modest risk-adjusted returns"
Sell == "**SELL** - Poor risk-adjusted returns"

\* variant: the first band compared with >= instead of >
Recommendation_GE(sharpe) ==
    IF ~GtRat(<<1, 1>>, sharpe[1], sharpe[2]) THEN StrongBuy
    ELSE IF GtRat(sharpe, 1, 2) THEN Buy
    ELSE IF GtRat(sharpe, 0, 1) THEN Hold
    ELSE Sell

\* agent.py lines 189-199: the recommendation of the report
Recommendation(sharpe) ==
    IF GtRat(sharpe, 1, 1) THEN StrongBuy
    ELSE IF GtRat(sharpe, 1, 2) THEN Buy
    ELSE IF GtRat(sharpe, 0, 1) THEN Hold
    ELSE Sell

\* utils.py generate_recommendation
generate_recommendation(sharpe_ratio) ==
    IF GtRat(sharpe_ratio, 1, 1) THEN StrongBuy
    ELSE IF GtRat(sharpe_ratio, 1, 2) THEN Buy
    ELSE IF GtRat(sharpe_ratio, 0, 1) THEN Hold
    ELSE Sell


-----------------------------------------------------------------------------
(* The environment of the finance agent: what yfinance and matplotlib may  *)
(* answer.  The model explores four scenarios, so that long lists, retry   *)
(* outcomes, price data and market capitalisations are each varied widely  *)
(* without multiplying one another.                                        *)

\* agent.py line 104; the variant allows one more pass of the loop
max_retries_Four == 2 + 2

max_retries == 3

\* agent.py line 134; the variant asks for one return less
MinReturns_Four == 2 + 2

MinReturns == 5

(* The value of the local `hist`: not yet assigned, an empty frame, or a   *)
(* frame of n daily returns with the annualised return and volatility (in  *)
(* percent) that pandas computes from it.  cols tells which columns the    *)
(* frame has: "all", "noclose" (hist["Close"] raises) or "nohigh"          *)
(* (hist["High"] raises).  owner is the index of the ticker it was fetched *)
(* for.                                                                    *)
Hist(state, owner, n, ret, vol, cols) ==
    [state |-> state, owner |-> owner, n |-> n, ret |-> ret, vol |-> vol, cols |-> cols]
Unbound == Hist("unbound", 0, 0, 0, 0, "all")
Frame(n, ret, vol, cols) == Hist("data", 0, n, ret, vol, cols)
EmptyFrame == Hist("empty", 0, 0, 0, 0, "all")

PlainFrame == Frame(250, 30, 20, "all")

(* An outcome of one pass of the retry loop: yf.Ticker raises, history     *)
(* raises, or history returns a frame (empty or not).                      *)
Outcome(kind, frame) == [kind |-> kind, frame |-> frame]
CtorRaises == Outcome("ctor_raise", Unbound)
HistoryRaises == Outcome("raise", Unbound)
Returns(frame) == Outcome("return", frame)

(* What stock.info gives: it raises, or it is a dict whose marketCap is    *)
(* missing, None, or a number.                                             *)
Info(kind, cap) == [kind |-> kind, cap |-> cap]
InfoRaises == Info("raise", Zero)
InfoNoCap == Info("missing", Zero)
InfoNoneCap == Info("none", Zero)
InfoCap(n) == Info("cap", n)

PlainCap == Num(FALSE, <<2, 500, 0, 0, 0>>)

CapDigits == {0, 1, 999}

RECURSIVE GroupSeqs(_)
\* the group sequences of length k over CapDigits
GroupSeqs(k) ==
    IF k = 0 THEN {<<>>}
    ELSE {<<d>> \o g : d \in CapDigits, g \in GroupSeqs(k - 1)}

\* the market capitalisations of the model: every positive number of at most
\* MaxGroups groups over CapDigits, zero, and two negative numbers
Caps ==
    {Num(FALSE, g) : g \in {h \in UNION {GroupSeqs(k) : k \in 1..MaxGroups} : h[1] # 0}}
    \cup {Zero, Num(TRUE, <<1>>), Num(TRUE, <<1, 0, 0>>)}

Envs == {"batch", "retry", "errors", "metrics", "caps"}

OneTicker == {<<StrVal(<<"B">>)>>}

RECURSIVE ListsUpTo(_, _)
\* the sequences over S of length at most n
ListsUpTo(S, n) ==
    IF n = 0 THEN {<<>>}
    ELSE LET shorter == ListsUpTo(S, n - 1)
         IN  shorter \cup {<<e>> \o l : e \in S, l \in {m \in shorter : Len(m) = n - 1}}

BatchEntries == {NoneVal, StrVal(<<" ">>), StrVal(<<" ", "a">>), StrVal(<<"B", " ">>)}
\* the raw ticker list of n entries of the retry scenario: two tickers in turn
RetryEntries(n) ==
    [k \in 1..n |-> IF k % 2 = 1 THEN StrVal(<<"a">>) ELSE StrVal(<<"b", " ">>)]
ErrorEntries == {NanVal, StrVal(<<"a">>)}

\* the raw ticker lists a request or a file may carry
EnvLists(e) ==
    CASE e = "batch" -> ListsUpTo(BatchEntries, MaxList)
      [] e = "retry" -> {RetryEntries(n) : n \in 0..MaxRetryList}
      [] e = "errors" -> ListsUpTo(ErrorEntries, MaxRetryList)
      [] OTHER -> OneTicker

\* the outcomes of one pass of the retry loop
EnvFetch(e) ==
    CASE e = "retry" -> {CtorRaises, HistoryRaises, Returns(EmptyFrame), Returns(PlainFrame)}
      [] e = "errors" -> {Returns(PlainFrame),
                          Returns(Frame(MinReturns - 1, 30, 20, "all")),
                          Returns(Frame(250, 30, 20, "noclose")),
                          Returns(Frame(250, 30, 20, "nohigh"))}
      [] e = "metrics" -> {Returns(Frame(n, r, v, "all")) :
                              n \in {MinReturns - 1, MinReturns, 250},
                              r \in {-10, 0, 1, 5, 10, 11, 20, 21},
                              v \in {0, 10, 20}}
      [] OTHER -> {Returns(PlainFrame)}

\* what stock.info may give
EnvInfo(e) ==
    CASE e = "errors" -> {InfoRaises, InfoNoCap, InfoNoneCap, InfoCap(PlainCap)}
      [] e = "caps" -> {InfoCap(n) : n \in Caps} \cup {InfoNoCap}
      [] OTHER -> {InfoCap(PlainCap)}

\* whether rendering the chart may succeed (TRUE) or raise (FALSE)
EnvChart(e) == IF e = "errors" THEN {TRUE, FALSE} ELSE {TRUE}

\* whether jsonify(analysis_data) may succeed (TRUE) or raise (FALSE)
EnvJsonify(e) == IF e = "errors" THEN {TRUE, FALSE} ELSE {TRUE}


-----------------------------------------------------------------------------
(* The finance agent: FinanceAnalyzer (agents/finance/agent.py) and the    *)
(* route /api/analyze_tickers (app.py).                                    *)

NoData == "No data available after retries"
Insufficient == "Insufficient price history"
ErrorStatus == "Error"              \* f"Error: {str(e)}"

\* variant: the status record carries metrics too
StatusRec_WithMetrics(t, status) ==
    [ticker |-> t, keys |-> {"ticker", "status", "metrics"}, status |-> status, src |-> 0,
     sharpe |-> <<0, 1>>, rec |-> "", market_cap |-> Zero, cap |-> NA]

\* a result record {"ticker", "status"}
StatusRec(t, status) ==
    [ticker |-> t, keys |-> {"ticker", "status"}, status |-> status, src |-> 0,
     sharpe |-> <<0, 1>>, rec |-> "", market_cap |-> Zero, cap |-> NA]

\* a result record {"ticker", "company_name", "analysis", "metrics"}; src is
\* the owner of the frame the metrics were computed from
MetricsRec(t, h, market_cap) ==
    [ticker |-> t, keys |-> {"ticker", "company_name", "analysis", "metrics"},
     status |-> "", src |-> h.owner,
     sharpe |-> Sharpe(h.ret, h.vol), rec |-> Recommendation(Sharpe(h.ret, h.vol)),
     market_cap |-> market_cap, cap |-> MarketCapStr(market_cap)]

\* an entry of charts (agent.py line 184); the variant labels every chart "?"
Chart_NoTicker(t, h) == [ticker |-> <<"?">>, src |-> h.owner]

Chart(t, h) == [ticker |-> t, src |-> h.owner]

\* info.get("marketCap", 0)
MarketCapOf(info) == IF info.kind = "cap" THEN info.cap ELSE Zero

\* variant: line 125 without `or hist.empty`
NoHistory_StockOnly(st, h) == st = 0

\* agent.py line 125, once hist is known to be bound: stock is None or hist.empty
NoHistory(st, h) == st = 0 \/ h.state = "empty"

(* Lines 125-242 for one ticker t, once the retry loop is left with the    *)
(* locals st (stock) and h (hist): the record appended to results and the  *)
(* entries appended to charts.  Every exception between lines 99 and 238   *)
(* ends in the handler of line 240, except one raised while the chart is   *)
(* rendered, which the handler of line 185 swallows.                       *)
(* exc lists the places where an exception was raised: "hist" (line 125),  *)
(* "metrics" (132), "info" (149-156), "chart" (170-184), "format" (202).   *)
AnalyzeOne(t, st, h, info, chartOk) ==
    LET chart == IF chartOk THEN <<Chart(t, h)>> ELSE <<>>
        cexc == IF chartOk THEN <<>> ELSE <<"chart">>
        Out(rec, ch, exc) == [rec |-> rec, chart |-> ch, exc |-> exc]
    IN  CASE st # 0 /\ h.state = "unbound" ->       \* hist.empty: UnboundLocalError
               Out(StatusRec(t, ErrorStatus), <<>>, <<"hist">>)
          [] ~(st # 0 /\ h.state = "unbound") /\ NoHistory(st, h) ->
               Out(StatusRec(t, NoData), <<>>, <<>>)
          [] OTHER ->
               IF h.cols = "noclose"                \* hist["Close"] raises
               THEN Out(StatusRec(t, ErrorStatus), <<>>, <<"metrics">>)
               ELSE IF h.n < MinReturns
               THEN Out(StatusRec(t, Insufficient), <<>>, <<>>)
               ELSE IF info.kind \in {"raise", "none"}   \* stock.info raises; None > 0 raises
               THEN Out(StatusRec(t, ErrorStatus), <<>>, <<"info">>)
               ELSE IF h.cols = "nohigh"            \* hist["High"] raises, after the chart
               THEN Out(StatusRec(t, ErrorStatus), chart, cexc \o <<"format">>)
               ELSE Out(MetricsRec(t, h, MarketCapOf(info)), chart, cexc)

Resp(status, keys, res, ch) ==
    [status |-> status, keys |-> keys, results |-> res, charts |-> ch]
NoResp == Resp(0, {}, <<>>, <<>>)

Req(route, kind, list) == [route |-> route, kind |-> kind, list |-> list]
NoReq == Req("none", "none", <<>>)

(* An entry of the event log, for the ticker of index i: a call of         *)
(* yf.Ticker ("ok" or "raise"), a call of history ("data", "empty" or      *)
(* "raise"), a sleep of one second, or an exception raised at a place of   *)
(* the rest of the loop body.                                              *)
Ev(op, i, out) == [op |-> op, i |-> i, out |-> out]

FinRest ==
    /\ tickers = <<>>
    /\ ti = 0
    /\ retry_count = 0
    /\ stock = 0
    /\ hist = Unbound
    /\ results = <<>>
    /\ charts = <<>>
    /\ events = <<>>
    /\ fin_resp = NoResp

FinInit ==
    /\ env \in Envs
    /\ fin_req = NoReq
    /\ fpc = "idle"
    /\ FinRest

FinOff ==
    /\ env = "off"
    /\ fin_req = NoReq
    /\ fpc = "off"
    /\ FinRest

\* _analyze_tickers is entered with the list tk (lines 92-96, and 103-105 of
\* the first iteration)
StartAnalysis(tk) ==
    /\ tickers' = tk
    /\ ti' = 1
    /\ fpc' = "fetch"
    /\ UNCHANGED <<retry_count, stock, hist, results, charts, events, fin_resp>>

\* the entry point returns without analysing anything
ReturnEarly(resp) ==
    /\ fin_resp' = resp
    /\ fpc' = "done"
    /\ UNCHANGED <<tickers, ti, retry_count, stock, hist, results, charts, events>>

(* POST /api/analyze_tickers, app.py lines 105-139, with process_tickers,  *)
(* agent.py lines 29-46.  The body's "tickers" is absent, a list, or a     *)
(* value that is true but cannot be iterated (a number).                   *)
analyze_tickers ==
    /\ fpc = "idle"
    /\ \E kind \in {"absent", "list", "scalar"} :
       \E list \in (IF kind = "list" THEN EnvLists(env) ELSE {<<>>}) :
          /\ fin_req' = Req("analyze_tickers", kind, list)
          /\ IF kind = "absent" \/ (kind = "list" /\ list = <<>>)
             THEN ReturnEarly(Resp(400, {"error"}, <<>>, <<>>))
             ELSE IF kind = "scalar"
             \* process_tickers raises, and so does the handler of line 122
             THEN ReturnEarly(Resp(500, {"error"}, <<>>, <<>>))
             ELSE IF NormalizeTickers(list) = <<>>
             THEN ReturnEarly(Resp(200, {"results", "charts", "message"}, <<>>, <<>>))
             ELSE StartAnalysis(NormalizeTickers(list))
    /\ UNCHANGED <<env, docVars, rt>>
    /\ RegistryKept

\* a column of a CSV file
Col(name, values) == [name |-> name, values |-> values]

\* agent.py lines 53-58: the "ticker" column, else the first column
CsvTickers(cols) ==
    IF \E k \in 1..Len(cols) : cols[k].name = "ticker"
    THEN cols[CHOOSE k \in 1..Len(cols) : cols[k].name = "ticker"].values
    ELSE cols[1].values

RECURSIVE TxtTickers(_)
\* agent.py line 62: [line.strip() for line in f if line.strip()]
TxtTickers(lines) ==
    IF lines = <<>> THEN <<>>
    ELSE (IF Strip(Head(lines).s) # <<>> THEN <<StrVal(Strip(Head(lines).s))>> ELSE <<>>)
         \o TxtTickers(Tail(lines))

\* the CSV files with the values l in one column
CsvFiles(l) ==
    {<<Col("ticker", l)>>, <<Col("symbol", l)>>,
     <<Col("name", [k \in 1..Len(l) |-> StrVal(<<"e">>)]), Col("ticker", l)>>}

(* FinanceAnalyzer.process_file, agent.py lines 48-87, on a CSV file, a    *)
(* text file, or a file that cannot be read or parsed.                     *)
process_file ==
    /\ fpc = "idle"
    /\ \E kind \in {"csv", "txt", "unreadable"} :
       \E l \in (IF kind = "unreadable" THEN {<<>>}
                 ELSE IF kind = "txt"
                 THEN {m \in EnvLists(env) : \A k \in 1..Len(m) : m[k].kind = "str"}
                 ELSE EnvLists(env)) :
       \E cols \in (IF kind = "csv" THEN CsvFiles(l) ELSE {<<>>}) :
          LET raw == IF kind = "csv" THEN CsvTickers(cols) ELSE TxtTickers(l)
          IN  /\ fin_req' = Req("process_file", kind, raw)
              /\ IF kind = "unreadable"
                 THEN ReturnEarly(Resp(0, {"error", "results", "charts"}, <<>>, <<>>))
                 ELSE IF NormalizeFileTickers(raw) = <<>>
                 THEN ReturnEarly(Resp(0, {"results", "charts", "message"}, <<>>, <<>>))
                 ELSE StartAnalysis(NormalizeFileTickers(raw))
    /\ UNCHANGED <<env, docVars, rt>>
    /\ RegistryKept

\* retry_count after a pass of the loop: lines 112-113 break and leave it,
\* lines 116 and 122 add one; the variant of the handler of line 118 forgets to
Counted_Forgetful(found, n) == n

Counted(found, n) == IF found THEN n ELSE n + 1

(* One pass of the retry loop, agent.py lines 107-123.                     *)
FetchAttempt ==
    /\ fpc = "fetch"
    /\ retry_count < max_retries
    /\ \E o \in EnvFetch(env) :
          LET found == o.kind = "return" /\ o.frame.state = "data"
              count == Counted(found, retry_count)
          IN  /\ stock' = IF o.kind = "ctor_raise" THEN stock ELSE ti
              /\ hist' = IF o.kind = "return" THEN [o.frame EXCEPT !.owner = ti] ELSE hist
              /\ retry_count' = count
              /\ events' = events
                    \o <<Ev("Ticker", ti, IF o.kind = "ctor_raise" THEN "raise" ELSE "ok")>>
                    \o (IF o.kind = "ctor_raise" THEN <<>>
                        ELSE <<Ev("history", ti,
                                  IF o.kind = "raise" THEN "raise" ELSE o.frame.state)>>)
                    \o (IF found THEN <<>> ELSE <<Ev("sleep", ti, "1s")>>)
              /\ fpc' = IF found \/ count >= max_retries THEN "analyze" ELSE "fetch"
    /\ UNCHANGED <<env, fin_req, tickers, ti, results, charts, fin_resp, docVars, rt>>
    /\ RegistryKept

(* The rest of the loop body, agent.py lines 125-242, and the start of the *)
(* next iteration (lines 103-105) or the end of the loop.                  *)
AnalyzeTicker ==
    /\ fpc = "analyze"
    /\ \E info \in EnvInfo(env), chartOk \in EnvChart(env) :
          LET out == AnalyzeOne(tickers[ti], stock, hist, info, chartOk)
          IN  /\ results' = Append(results, out.rec)
              /\ charts' = charts \o out.chart
              /\ events' = events \o [k \in 1..Len(out.exc) |-> Ev("except", ti, out.exc[k])]
    /\ retry_count' = 0
    /\ stock' = 0
    /\ IF ti < Len(tickers)
       THEN ti' = ti + 1 /\ fpc' = "fetch"
       ELSE ti' = ti /\ fpc' = "return"
    /\ UNCHANGED <<env, fin_req, tickers, hist, fin_resp, docVars, rt>>
    /\ RegistryKept

\* the answer of the handler of app.py lines 122-135 to an exception of
\* process_tickers or jsonify; the variant answers like the outer handler
ProcessingError_Bare(list) == Resp(500, {"error"}, <<>>, <<>>)

ProcessingError(list) ==
    Resp(500, {"results", "charts", "error"},
         [k \in 1..Len(list) |-> StatusRec(list[k], "Processing error")], <<>>)

(* agent.py line 244, and in the route jsonify (app.py line 121), which    *)
(* returns the response or raises into the handler of line 122.            *)
ReturnAnalysis ==
    /\ fpc = "return"
    /\ IF fin_req.route = "analyze_tickers"
       THEN \E ok \in EnvJsonify(env) :
               fin_resp' = IF ok THEN Resp(200, {"results", "charts"}, results, charts)
                           ELSE ProcessingError(fin_req.list)
       ELSE fin_resp' = Resp(0, {"results", "charts"}, results, charts)
    /\ fpc' = "done"
    /\ UNCHANGED <<env, fin_req, tickers, ti, retry_count, stock, hist, results,
                   charts, events, docVars, rt>>
    /\ RegistryKept

FinNext == analyze_tickers \/ process_file \/ FetchAttempt \/ AnalyzeTicker \/ ReturnAnalysis


-----------------------------------------------------------------------------
(* The document routes of app.py: POST /api/process_document and POST      *)
(* /api/summarize, with DocumentProcessor.process_file                     *)
(* (text_analyzer/agent.py).                                               *)

\* app.py lines 42-86
agent_registry ==
    [summarizer |->
        [name |-> "Document Summarizer",
         supported_types |-> <<"txt", "pdf", "csv", "mp4", "mov">>,
         mime_types |-> [txt |-> "text/plain", pdf |-> "application/pdf",
                         csv |-> "text/csv", mp4 |-> "video/mp4",
                         mov |-> "video/quicktime"]],
     finance |->
        [name |-> "Finance Analyzer",
         supported_types |-> <<"txt", "csv">>,
         mime_types |-> [txt |-> "text/plain", csv |-> "text/csv"]],
     marketing |->
        [name |-> "Marketing Assistant",
         supported_types |-> <<"txt", "csv", "json">>,
         mime_types |-> [txt |-> "text/plain", csv |-> "text/csv",
                         json |-> "application/json"]],
     healthcare |->
        [name |-> "Healthcare Assistant",
         supported_types |-> <<"txt">>,
         mime_types |-> [txt |-> "text/plain"]]]

Threads == {1, 2}

\* the file extensions of the uploads of the model
Exts == {"txt", "pdf", "csv", "mp4", "mov", "json", "exe"}

\* an uploaded file name "a.<ext>", as <<stem, extension>>
FileName(ext) == <<"a", ext>>

\* Path(file.filename).suffix[1:].lower(), for the lower-case names of the model
FileExt(filename) == filename[2]

(* An upload: no file part at all, or a file name and a content.  The      *)
(* content is the number of chunks the splitter cuts it into, and its      *)
(* chunks are <<content, 1>> .. <<content, content>>.  The text files of  *)
(* the model have every length up to MaxChunks, the others one chunk.      *)
Upload(filename, content) == [filename |-> filename, content |-> content]
NoUpload == Upload(<<>>, 0)
Uploads ==
    {Upload(FileName("txt"), c) : c \in 0..MaxChunks}
        \cup {Upload(FileName(e), 1) : e \in Exts \ {"txt"}}

\* text_splitter.split_documents(loader.load())
ChunksOf(content) == [j \in 1..content |-> <<content, j>>]

\* the agent_type fields of the model; "" stands for a form without the field
AgentTypes == {"summarizer", "finance", "marketing", "healthcare", "education", ""}

\* data.get("file_id"): None (<<>>), the empty string, or a name
NoFileId == <<>>
EmptyFileId == <<"", "">>
FileIds == {NoFileId, EmptyFileId} \cup {FileName(e) : e \in Exts}

(* A response: status, kind ("error": {error: msg}; "summary": {summary};  *)
(* "finance": the analysis JSON; "none": the handler returned None and     *)
(* Flask answers with its own error), the message and the summary.         *)
Rsp(status, kind, msg, summary) ==
    [status |-> status, kind |-> kind, msg |-> msg, summary |-> summary]
NoRsp == Rsp(0, "pending", <<>>, <<>>)
ErrorRsp(status, msg) == Rsp(status, "error", msg, <<>>)

(* An entry of a request's log of effects outside the handler: the temp    *)
(* file ("tmp_create", "tmp_unlink"), the agent's processor ("processor"), *)
(* the vector store ("vector_store"), the LLM ("llm_chunk", "llm_combine").*)
Eff(op, arg, ok) == [op |-> op, arg |-> arg, ok |-> ok]

\* what a thread holds: the request, the locals of the handler, the response
Thread(route, pc, agent_type, upload, file_id, chunks, sums, log, resp) ==
    [route |-> route, pc |-> pc, agent_type |-> agent_type, upload |-> upload,
     file_id |-> file_id, chunks |-> chunks, sums |-> sums, log |-> log, resp |-> resp]
IdleThread == Thread("none", "idle", "", NoUpload, NoFileId, <<>>, <<>>, <<>>, NoRsp)

\* the threads that serve requests in a mode
Serving(m) ==
    CASE m = "serial" -> {1}
      [] m = "race" -> Threads
      [] OTHER -> {}

\* the uploads and agent types of a mode: in "race", summarizer uploads of a.txt
ModeUploads(m) ==
    IF m = "race" THEN {Upload(FileName("txt"), c) : c \in 1..MaxChunks}
    ELSE Uploads \cup {NoUpload}
ModeAgentTypes(m) == IF m = "race" THEN {"summarizer"} ELSE AgentTypes
ModeFileIds(m) == IF m = "race" THEN {FileName("txt")} ELSE FileIds

DocInit ==
    /\ mode \in {"serial", "race"}
    /\ processed_docs = <<>>
    /\ tmp_files = {}
    /\ reqs = [t \in Threads |-> IdleThread]

DocOff ==
    /\ mode = "off"
    /\ processed_docs = <<>>
    /\ tmp_files = {}
    /\ reqs = [t \in Threads |-> IdleThread]

\* processed_docs[key] = value (app.py line 190); the variant keeps the value
\* of a key that is already there
Put_KeepFirst(dict, key, value) ==
    [k \in DOMAIN dict \cup {key} |-> IF k \in DOMAIN dict THEN dict[k] ELSE value]

\* the variant extends the list of a key that is already there
Put_Extend(dict, key, value) ==
    [k \in DOMAIN dict \cup {key} |->
        IF k # key THEN dict[k]
        ELSE IF k \in DOMAIN dict THEN dict[k] \o value ELSE value]

\* the variant stores nothing
Put_Nothing(dict, key, value) == dict

\* the variant keeps the last document only
Put_Only(dict, key, value) == [k \in {key} |-> value]

Put(dict, key, value) ==
    [k \in DOMAIN dict \cup {key} |-> IF k = key THEN value ELSE dict[k]]

\* the handler of thread t returns resp; with unlink, its finally clause
\* removes the temp file first (app.py lines 216-218); the variant has no
\* finally clause
Finish_NoUnlink(t, resp, log, unlink) ==
    /\ reqs' = [reqs EXCEPT ![t].pc = "done", ![t].resp = resp, ![t].log = log]
    /\ tmp_files' = tmp_files

Finish(t, resp, log, unlink) ==
    /\ reqs' = [reqs EXCEPT ![t].pc = "done", ![t].resp = resp,
                  ![t].log = IF unlink THEN log \o <<Eff("tmp_unlink", <<>>, TRUE)>> ELSE log]
    /\ tmp_files' = IF unlink THEN tmp_files \ {t} ELSE tmp_files

\* app.py line 163 is `file_ext not in mime_types`: whether the agent takes the extension
Supported_Summarizer(agent_type, file_ext) ==
    file_ext \in DOMAIN registry["summarizer"].mime_types

Supported(agent_type, file_ext) ==
    file_ext \in DOMAIN registry[agent_type].mime_types

\* request.form.get("agent_type", "summarizer"), app.py line 148
AgentTypeOf_Default(field) == "summarizer"

AgentTypeOf(field) == IF field = "" THEN "summarizer" ELSE field

(* app.py lines 143-176: the checks of process_document and the temp file. *)
process_document(t) ==
    /\ t \in Serving(mode)
    /\ reqs[t].pc \in {"idle", "done"}
    /\ \E field \in ModeAgentTypes(mode), up \in ModeUploads(mode) :
          LET agent_type == AgentTypeOf(field)
              fresh == Thread("process_document", "process", field, up, NoFileId,
                              <<>>, <<>>, <<>>, NoRsp)
              Reject(msg) ==
                  /\ reqs' = [reqs EXCEPT ![t] =
                                 [fresh EXCEPT !.pc = "done", !.resp = ErrorRsp(400, msg)]]
                  /\ UNCHANGED tmp_files
          IN  IF up = NoUpload
              THEN Reject(<<"No file provided">>)
              ELSE IF agent_type \notin DOMAIN registry
              THEN Reject(<<"Unknown agent type: ", agent_type>>)
              ELSE IF ~Supported(agent_type, FileExt(up.filename))
              THEN Reject(<<"Unsupported file type for ", registry[agent_type].name,
                            ": ", FileExt(up.filename)>>)
              ELSE /\ reqs' = [reqs EXCEPT ![t] =
                                  [fresh EXCEPT !.log = <<Eff("tmp_create", <<>>, TRUE)>>]]
                   /\ tmp_files' = tmp_files \cup {t}
    /\ UNCHANGED <<mode, processed_docs, finVars, rt>>
    /\ RegistryKept

\* the answer of the chain to "Summarize this chunk concisely" (app.py line 200)
Summary(chunk) == <<"summary of", chunk>>

\* the answer of the chain to "Combine these summaries into one coherent
\* summary" (app.py line 209)
Combined(sums) == <<"combination of">> \o sums

\* the except clause of a handler answers 500 with the message of the exception
\* (app.py lines 213-214 and 253-254); the partial variant answers with the
\* summaries made so far
Except_Partial(t, log) ==
    Finish(t, Rsp(200, "summary", <<>>, Combined(reqs[t].sums)), log,
           reqs[t].route = "process_document")

Except(t, log) ==
    Finish(t, ErrorRsp(500, <<"exception">>), log, reqs[t].route = "process_document")

\* `for chunk in chunks` (app.py lines 198 and 238): the chunk of the next pass
NextChunk_Reversed(r) == r.chunks[Len(r.chunks) - Len(r.sums)]

NextChunk(r) == r.chunks[Len(r.sums) + 1]

\* DocumentProcessor.process_file, lines 28-35: the loader of a MIME type
LoaderOf(file_type) ==
    CASE file_type = "text/plain" -> "TextLoader"
      [] file_type = "text/csv" -> "CSVLoader"
      [] file_type = "application/pdf" -> "PyPDFLoader"
      [] OTHER -> "ValueError"

(* app.py lines 178-187 and the fall-through of line 212: the agent's      *)
(* processor is called.  The finance agent answers with its analysis; the  *)
(* summarizer loads, splits and stores the document (or raises); no other  *)
(* agent has a branch, and the handler returns None.                       *)
ProcessFile(t) ==
    /\ reqs[t].route = "process_document"
    /\ reqs[t].pc = "process"
    /\ LET r == reqs[t]
           agent_type == AgentTypeOf(r.agent_type)
           file_type == registry[agent_type].mime_types[FileExt(r.upload.filename)]
           call(ok) == r.log \o <<Eff("processor", <<>>, ok)>>
       IN  CASE agent_type = "finance" ->
                  Finish(t, Rsp(200, "finance", <<>>, <<>>), call(TRUE), TRUE)
             [] agent_type = "summarizer" ->
                  IF LoaderOf(file_type) = "ValueError"
                  THEN Finish(t, ErrorRsp(500, <<"Unsupported file type: ", file_type>>),
                              call(FALSE), TRUE)
                  ELSE \E ok \in BOOLEAN :
                          IF ok
                          THEN /\ reqs' = [reqs EXCEPT
                                    ![t].pc = "store",
                                    ![t].chunks = ChunksOf(r.upload.content),
                                    ![t].log = call(TRUE) \o <<Eff("vector_store", <<>>, TRUE)>>]
                               /\ UNCHANGED tmp_files
                          ELSE Except(t, call(FALSE))
             [] OTHER ->
                  Finish(t, Rsp(500, "none", <<>>, <<>>), r.log, TRUE)
    /\ UNCHANGED <<mode, processed_docs, finVars, rt>>
    /\ RegistryKept

\* app.py line 190: processed_docs[file.filename] = chunks
Store(t) ==
    /\ reqs[t].pc = "store"
    /\ processed_docs' = Put(processed_docs, reqs[t].upload.filename, reqs[t].chunks)
    /\ reqs' = [reqs EXCEPT ![t].pc = "chunks"]
    /\ UNCHANGED <<mode, tmp_files, finVars, rt>>
    /\ RegistryKept

(* POST /api/summarize, app.py lines 221-230.                              *)
summarize(t) ==
    /\ t \in Serving(mode)
    /\ reqs[t].pc \in {"idle", "done"}
    /\ \E file_id \in ModeFileIds(mode) :
          LET fresh == Thread("summarize", "chunks", "", NoUpload, file_id,
                              <<>>, <<>>, <<>>, NoRsp)
          IN  IF file_id \in {NoFileId, EmptyFileId} \/ file_id \notin DOMAIN processed_docs
              THEN reqs' = [reqs EXCEPT ![t] =
                              [fresh EXCEPT !.pc = "done",
                                  !.resp = ErrorRsp(400, <<"Document not found or not processed">>)]]
              ELSE reqs' = [reqs EXCEPT ![t] = [fresh EXCEPT !.chunks = processed_docs[file_id]]]
    /\ UNCHANGED <<mode, processed_docs, tmp_files, finVars, rt>>
    /\ RegistryKept

(* One pass of the loop of app.py lines 198-201 (238-241 in summarize):    *)
(* the LLM summarises the next chunk, or raises.                           *)
SummarizeChunk(t) ==
    /\ reqs[t].pc = "chunks"
    /\ Len(reqs[t].sums) < Len(reqs[t].chunks)
    /\ LET r == reqs[t]
           chunk == NextChunk(r)
           call(ok) == r.log \o <<Eff("llm_chunk", <<chunk>>, ok)>>
       IN  \E ok \in BOOLEAN :
              IF ok
              THEN /\ reqs' = [reqs EXCEPT ![t].sums = Append(r.sums, Summary(chunk)),
                                           ![t].log = call(TRUE)]
                   /\ UNCHANGED tmp_files
              ELSE Except(t, call(FALSE))
    /\ UNCHANGED <<mode, processed_docs, finVars, rt>>
    /\ RegistryKept

(* app.py lines 203-211 (243-251 in summarize): the summaries are combined *)
(* by one more LLM call, whose answer is the response.                     *)
Combine(t) ==
    /\ reqs[t].pc = "chunks"
    /\ Len(reqs[t].sums) = Len(reqs[t].chunks)
    /\ LET r == reqs[t]
           call(ok) == r.log \o <<Eff("llm_combine", r.sums, ok)>>
       IN  \E ok \in BOOLEAN :
              IF ok
              THEN Finish(t, Rsp(200, "summary", <<>>, Combined(r.sums)), call(TRUE),
                          r.route = "process_document")
              ELSE Except(t, call(FALSE))
    /\ UNCHANGED <<mode, processed_docs, finVars, rt>>
    /\ RegistryKept

DocNext ==
    \E t \in Threads :
        \/ process_document(t)
        \/ ProcessFile(t)
        \/ Store(t)
        \/ summarize(t)
        \/ SummarizeChunk(t)
        \/ Combine(t)

-----------------------------------------------------------------------------
(* The prompt routes: app.py lines 257-433 with MarketingAgencyAutomation  *)
(* and HealthcareAgent, and the education blueprint.  Each handler is one  *)
(* step: it reads the fields of the JSON body, rejects the request or      *)
(* calls the agent, and answers.                                           *)

\* a field of the body: not in the body, present but false ("", [], {}), or a value
Presence == {"absent", "empty", "value"}

(* What goes wrong outside during a request: the HTML fetch, the SerpAPI   *)
(* search, the chat completion or the Tavily search fails.                 *)
Faults == {"http", "serp", "llm", "tavily"}

\* the external calls of the education routes: Tavily and the chat completion
EducationFaults == {"llm", "tavily"}

(* The response of a prompt route: kind is "error" ({error: msg}),         *)
(* "result" (the operation's own dict), "status_error" ({status: "error",  *)
(* message}) or "empty" ({}); text tells whether the generated text is in  *)
(* the result (FALSE: it is None).                                         *)
RRsp(status, kind, text) ==
    [status |-> status, kind |-> kind, text |-> text, ids |-> {}]

\* the response of a route that lists the agents: their ids
Listing(kind, ids) == [status |-> 200, kind |-> kind, text |-> TRUE, ids |-> ids]
NoRRsp == RRsp(0, "pending", FALSE)

\* what an agent operation did: its external calls, in order, and the response
Out(calls, resp) == [calls |-> calls, resp |-> resp]

Rt(route, fields, faults, calls, resp) ==
    [route |-> route, fields |-> fields, faults |-> faults, calls |-> calls, resp |-> resp,
     completion |-> <<>>]

RouteInit == rt = Rt("idle", <<>>, {}, <<>>, NoRRsp)

RouteOff == rt = Rt("off", <<>>, {}, <<>>, NoRRsp)

\* `not x` on a field read with data.get (app.py line 264 and its like); the
\* variant tests only `x == ""`
Falsy_EmptyOnly(p) == p = "empty"

Falsy(p) == p \in {"absent", "empty"}

\* `'x' not in data` (educational_agent.py lines 34 and 107)
NotIn(p) == p = "absent"

(* A handler of app.py: every field of `required` is read with data.get    *)
(* and tested with `not`; then the agent operation runs inside try/except. *)
Handle(route, required, operation) ==
    /\ \E fields \in [required -> Presence] :
          IF \E f \in required : Falsy(fields[f])
          THEN rt' = Rt(route, fields, {}, <<>>, RRsp(400, "error", FALSE))
          ELSE \E faults \in SUBSET Faults :
                  rt' = Rt(route, fields, faults, operation[faults].calls,
                           operation[faults].resp)
    /\ UNCHANGED <<finVars, docVars>>
    /\ RegistryKept

\* `not data or 'x' not in data ...` (educational_agent.py lines 34 and 107)
EducationRejects(required, fields) ==
    (\A f \in required : fields[f] = "absent") \/ (\E f \in required : NotIn(fields[f]))

(* A handler of the education blueprint: `not data or 'x' not in data`.    *)
HandleEducation(route, required, operation) ==
    /\ \E fields \in [required -> Presence] :
          IF EducationRejects(required, fields)
          THEN rt' = Rt(route, fields, {}, <<>>, RRsp(400, "error", FALSE))
          ELSE \E faults \in SUBSET EducationFaults :
                  rt' = Rt(route, fields, faults, operation[faults].calls,
                           operation[faults].resp)
    /\ UNCHANGED <<finVars, docVars>>
    /\ RegistryKept

\* the answer of a route whose agent operation raised (the except of each handler)
Raised == RRsp(500, "error", FALSE)

\* a result dict holding the text of _get_completion, which is None when the
\* completion failed (marketing/agent.py lines 42-44)
Generated(faults) == RRsp(200, "result", "llm" \notin faults)

\* marketing/agent.py lines 56-97
seo_optimizer ==
    [faults \in SUBSET Faults |->
        IF "http" \in faults
        THEN Out(<<"http">>, RRsp(200, "error", FALSE))
        ELSE Out(<<"http", "llm">>, Generated(faults))]

\* marketing/agent.py lines 99-122, for one competitor
competitor_watchdog ==
    [faults \in SUBSET Faults |->
        IF "serp" \in faults
        THEN Out(<<"serp">>, Raised)
        ELSE Out(<<"serp", "sleep", "llm">>, Generated(faults))]

\* marketing/agent.py lines 124-142
post_creator ==
    [faults \in SUBSET Faults |->
        Out(<<"llm">>, Generated(faults))]

\* marketing/agent.py lines 144-174, for one segment: generate_subject_lines
\* calls split on the completion, which raises when it is None
smart_email_manager ==
    [faults \in SUBSET Faults |->
        Out(<<"llm", "llm">>, IF "llm" \in faults THEN Raised ELSE Generated(faults))]

\* marketing/agent.py lines 184-216
sentiment_analyzer ==
    [faults \in SUBSET Faults |->
        IF "serp" \in faults
        THEN Out(<<"serp">>, Raised)
        ELSE Out(<<"serp", "llm">>, Generated(faults))]

\* marketing/agent.py lines 218-242
content_performance_predictor ==
    [faults \in SUBSET Faults |->
        Out(<<"llm">>, Generated(faults))]

\* marketing/agent.py lines 244-290, without competitors
price_monitor ==
    [faults \in SUBSET Faults |->
        Out(<<"http", "llm">>, Generated(faults))]

\* marketing/agent.py lines 292-316
customer_journey_mapper ==
    [faults \in SUBSET Faults |->
        Out(<<"llm">>, Generated(faults))]

\* healthcare/agent.py lines 94-116: each method invokes its chain inside try
healthcare_chain ==
    [faults \in SUBSET Faults |->
        Out(<<"llm">>, IF "llm" \in faults THEN RRsp(200, "status_error", FALSE)
                       ELSE RRsp(200, "result", TRUE))]

(* The text of a chat completion, as tokens: an opening brace, a closing   *)
(* brace, "m" for well-formed members of a JSON object, "p" for prose.     *)
Tokens == {"{", "}", "m", "p"}

RECURSIVE TextsOf(_)
TextsOf(n) ==
    IF n = 0 THEN {<<>>}
    ELSE TextsOf(n - 1)
            \cup {Append(t, c) : t \in {u \in TextsOf(n - 1) : Len(u) = n - 1}, c \in Tokens}

\* message.content is None
NoneContent == <<"None">>

Completions == TextsOf(MaxText) \cup {NoneContent}

\* str.find and str.rfind: the 0-based index of the first (last) c, or -1
Find(text, c) ==
    IF \E k \in 1..Len(text) : text[k] = c
    THEN (CHOOSE k \in 1..Len(text) : text[k] = c /\ \A j \in 1..(k - 1) : text[j] # c) - 1
    ELSE -1

RFind(text, c) ==
    IF \E k \in 1..Len(text) : text[k] = c
    THEN (CHOOSE k \in 1..Len(text) :
             text[k] = c /\ \A j \in (k + 1)..Len(text) : text[j] # c) - 1
    ELSE -1

\* text[a:b] of Python: a negative index counts from the end, both are clipped
Slice(text, a, b) ==
    LET clip(i) == IF i < 0 THEN (IF Len(text) + i < 0 THEN 0 ELSE Len(text) + i)
                   ELSE IF i > Len(text) THEN Len(text) ELSE i
    IN  SubSeq(text, clip(a) + 1, clip(b))

RECURSIVE IsObject(_), IsMembers(_)
\* json.loads accepts the text: a brace, members and nested objects, a brace
IsObject(text) ==
    /\ Len(text) >= 2
    /\ text[1] = "{"
    /\ text[Len(text)] = "}"
    /\ IsMembers(SubSeq(text, 2, Len(text) - 1))

IsMembers(text) ==
    \/ text = <<>>
    \/ text[1] = "m" /\ IsMembers(Tail(text))
    \/ \E k \in 2..Len(text) :
          IsObject(SubSeq(text, 1, k)) /\ IsMembers(SubSeq(text, k + 1, Len(text)))

\* educational_agent.py line 93
json_str(response_text) ==
    Slice(response_text, Find(response_text, "{"), RFind(response_text, "}") + 1)

\* the except clause of lines 95-97 answers {}; the variant lets the
\* exception reach the except clause of the handler
ParseFailed_Error == RRsp(500, "error", FALSE)

ParseFailed == RRsp(200, "empty", FALSE)

\* educational_agent.py lines 39-100
search_resources_body(faults, response_text) ==
    IF "tavily" \in faults THEN Out(<<"tavily">>, Raised)
    ELSE IF "llm" \in faults THEN Out(<<"tavily", "llm">>, Raised)
    ELSE IF response_text = NoneContent \/ ~IsObject(json_str(response_text))
    THEN Out(<<"tavily", "llm">>, ParseFailed)
    ELSE Out(<<"tavily", "llm">>, RRsp(200, "result", TRUE))

\* educational_agent.py lines 113-161
answer_question_body ==
    [faults \in SUBSET Faults |->
        IF "tavily" \in faults THEN Out(<<"tavily">>, Raised)
        ELSE IF "llm" \in faults THEN Out(<<"tavily", "llm">>, Raised)
        ELSE Out(<<"tavily", "llm">>, RRsp(200, "result", TRUE))]

\* whether the prompt routes are the subsystem this behaviour exercises
Routing == env = "off" /\ mode = "off"

\* app.py lines 257-271
analyze_seo ==
    /\ Routing
    /\ Handle("analyze_seo", {"url"}, seo_optimizer)

\* app.py lines 274-288
analyze_competitors ==
    /\ Routing
    /\ Handle("analyze_competitors", {"competitors"}, competitor_watchdog)

\* app.py lines 291-306
create_content ==
    /\ Routing
    /\ Handle("create_content", {"topic", "platform"}, post_creator)

\* app.py lines 309-323
create_email_campaign ==
    /\ Routing
    /\ Handle("create_email_campaign", {"campaign_type", "audience"}, smart_email_manager)

\* app.py lines 326-340
analyze_sentiment ==
    /\ Routing
    /\ Handle("analyze_sentiment", {"brand_name"}, sentiment_analyzer)

\* app.py lines 343-357
predict_content_performance ==
    /\ Routing
    /\ Handle("predict_content_performance", {"content", "platform"},
              content_performance_predictor)

\* app.py lines 360-374
monitor_prices ==
    /\ Routing
    /\ Handle("monitor_prices", {"product_url"}, price_monitor)

\* app.py lines 377-390
map_customer_journey ==
    /\ Routing
    /\ Handle("map_customer_journey", {"customer_data"}, customer_journey_mapper)

\* app.py lines 393-406
analyze_symptoms ==
    /\ Routing
    /\ Handle("analyze_symptoms", {"symptoms"}, healthcare_chain)

\* GET /api/get_wellness_tip, app.py lines 409-417: no field is read
get_wellness_tip ==
    /\ Routing
    /\ Handle("get_wellness_tip", {}, healthcare_chain)

\* app.py lines 419-433
answer_health_question ==
    /\ Routing
    /\ Handle("answer_health_question", {"query"}, healthcare_chain)

\* educational_agent.py lines 29-100
search_resources ==
    /\ Routing
    /\ \E fields \in [{"topic"} -> Presence] :
          IF EducationRejects({"topic"}, fields)
          THEN rt' = Rt("search_resources", fields, {}, <<>>, RRsp(400, "error", FALSE))
          ELSE \E faults \in SUBSET EducationFaults :
               \E text \in (IF faults \cap {"tavily", "llm"} = {} THEN Completions
                            ELSE {<<>>}) :
                  LET out == search_resources_body(faults, text)
                  IN  rt' = [Rt("search_resources", fields, faults, out.calls, out.resp)
                                EXCEPT !.completion = text]
    /\ UNCHANGED <<finVars, docVars>>
    /\ RegistryKept

\* educational_agent.py lines 102-161
answer_question ==
    /\ Routing
    /\ HandleEducation("answer_question", {"topic", "question"}, answer_question_body)

\* GET /api/agents, app.py lines 89-102
get_agents ==
    /\ env = "off"
    /\ rt' = Rt("get_agents", <<>>, {}, <<>>, Listing("agents", DOMAIN registry))
    /\ UNCHANGED <<finVars, docVars>>
    /\ RegistryKept

\* GET /health, app.py lines 436-438
health_check ==
    /\ env = "off"
    /\ rt' = Rt("health_check", <<>>, {}, <<>>, Listing("healthy", DOMAIN registry))
    /\ UNCHANGED <<finVars, docVars>>
    /\ RegistryKept

RouteNext ==
    \/ analyze_seo \/ analyze_competitors \/ create_content \/ create_email_campaign
    \/ analyze_sentiment \/ predict_content_performance \/ monitor_prices
    \/ map_customer_journey \/ analyze_symptoms \/ answer_health_question
    \/ search_resources \/ answer_question \/ get_wellness_tip
    \/ get_agents \/ health_check

-----------------------------------------------------------------------------
(* The specifications.  The finance agent, the document routes and the     *)
(* prompt routes share no state, so a behaviour exercises one of the three *)
(* and leaves the others off.                                              *)

\* app.py lines 42-86 run once, at import
RegistryInit == registry = agent_registry

FinanceInit == FinInit /\ DocOff /\ RouteOff /\ RegistryInit

DocsInit == FinOff /\ DocInit /\ RouteOff /\ RegistryInit

RoutesInit == FinOff /\ DocOff /\ RouteInit /\ RegistryInit

Init == FinanceInit \/ DocsInit \/ RoutesInit

Next == FinNext \/ DocNext \/ RouteNext

Spec == Init /\ [][Next]_vars

\* the finance agent alone
SpecFinance == FinanceInit /\ [][FinNext]_vars

\* the finance agent in the retry scenario alone
RetryInit == FinanceInit /\ env = "retry"

SpecRetry == RetryInit /\ [][FinNext]_vars

\* the document routes alone
SpecDocs == DocsInit /\ [][DocNext]_vars

\* the prompt routes alone
SpecRoutes == RoutesInit /\ [][RouteNext]_vars

\* the retry scenario, running on: every call of the market-data adapter
\* returns or raises, so a step that the agent can take is taken
SpecRetryFair == RetryInit /\ [][FinNext]_vars /\ WF_vars(FinNext)

-----------------------------------------------------------------------------
(* Properties of the finance agent.                                        *)

\* the normalised entries the request's list yields, before truncation
Kept ==
    SelectSeqBy(fin_req.list,
                IF fin_req.route = "analyze_tickers" THEN "truthy" ELSE "notnone")

\* the request carries a list of tickers (directly, or in a file that was read)
HasList == fin_req.kind \in {"list", "csv", "txt"}

\* the indices of the tickers for which an adapter call was made
Fetched == {events[j].i : j \in {k \in 1..Len(events) : events[k].op \in {"Ticker", "history"}}}

\* the outcomes of the history calls made for the ticker of index i, in order
RECURSIVE HistoryOf(_, _)
HistoryOf(i, evs) ==
    IF evs = <<>> THEN <<>>
    ELSE (IF Head(evs).op = "history" /\ Head(evs).i = i THEN <<Head(evs).out>> ELSE <<>>)
         \o HistoryOf(i, Tail(evs))

\* the loop iteration of the ticker of index i is over
Analyzed(i) == i \in 1..Len(results)

IsStatus(r) == r.keys = {"ticker", "status"}
IsMetrics(r) == "metrics" \in r.keys

(* C1: when a list given to process_tickers, or a file given to            *)
(* process_file, yields more than 5 entries after normalisation, exactly   *)
(* the first 5 of them, in input order, are analysed: they are the list    *)
(* handed to _analyze_tickers, no adapter call is made for a later entry,  *)
(* and at the end each of the 5 was fetched and has its result record.     *)
C1_FirstFiveOnly ==
    (HasList /\ Len(Kept) > 5) =>
        /\ Len(tickers) = 5
        /\ \A k \in 1..5 : tickers[k] = Kept[k]
        /\ Fetched \subseteq 1..5
        /\ fpc = "done" =>
              /\ Fetched = 1..5
              /\ Len(fin_resp.results) = 5
              /\ \A k \in 1..5 : fin_resp.results[k].ticker = Kept[k]

\* a list of six valid entries went through process_tickers, and five were analysed
C1_Witness ==
    /\ fpc = "done"
    /\ fin_req.route = "analyze_tickers"
    /\ Len(Kept) = 6
    /\ Kept[6] # Kept[5]
    /\ Len(fin_resp.results) = 5

\* the same through process_file
C1_WitnessFile ==
    /\ fpc = "done"
    /\ fin_req.route = "process_file"
    /\ Len(Kept) = 6
    /\ Len(fin_resp.results) = 5

(* C2: a ticker whose history call returned an empty frame on all three    *)
(* attempts gets exactly one result record, {ticker, status: "No data      *)
(* available after retries"}; the call returns normally, and every ticker  *)
(* after it is still fetched and analysed.                                 *)
AllEmpty(i) == HistoryOf(i, events) = <<"empty", "empty", "empty">>

C2_EmptyThriceIsNoData ==
    \A i \in 1..Len(tickers) :
        (AllEmpty(i) /\ Analyzed(i)) =>
            /\ results[i] = StatusRec(tickers[i], NoData)
            /\ Len(results) <= Len(tickers)
            /\ \A j \in 1..Len(results) : results[j].ticker = tickers[j]
            /\ fpc = "done" =>
                  /\ fin_resp.keys = {"results", "charts"}
                  /\ Len(fin_resp.results) = Len(tickers)
                  /\ \A j \in (i + 1)..Len(tickers) : j \in Fetched

\* the first ticker had three empty frames, and the second one got its metrics
C2_Witness ==
    /\ fpc = "done"
    /\ Len(tickers) >= 2
    /\ AllEmpty(1)
    /\ IsMetrics(fin_resp.results[2])

(* C3: whenever an exception is raised while a ticker is analysed (every   *)
(* fetch attempt raises, or the metric computation, the company-info       *)
(* lookup, the chart rendering or the report formatting raises),           *)
(* _analyze_tickers returns normally with results and charts, and the      *)
(* ticker's result record carries a status instead of metrics.             *)
FetchAlwaysRaised(i) ==
    /\ \E j \in 1..Len(events) : events[j].i = i /\ events[j].op = "Ticker"
    /\ \A j \in 1..Len(events) :
          (events[j].i = i /\ events[j].op = "Ticker" /\ events[j].out = "ok") =>
              (j < Len(events) /\ events[j + 1] = Ev("history", i, "raise"))

RaisedIn(i) == \E j \in 1..Len(events) : events[j].i = i /\ events[j].op = "except"

C3_EveryExceptionIsStatus ==
    /\ \A i \in 1..Len(results) :
          (FetchAlwaysRaised(i) \/ RaisedIn(i)) => IsStatus(results[i])
    /\ fpc = "done" /\ tickers # <<>> =>
          /\ fin_resp.keys = {"results", "charts"}
          /\ Len(fin_resp.results) = Len(tickers)


(* C6: the recommendation of a report is decided by the Sharpe-like ratio  *)
(* alone, in four bands: above 1 STRONG BUY, above 0.5 up to 1 BUY, above  *)
(* 0 up to 0.5 HOLD, 0 or less SELL; utils.generate_recommendation gives   *)
(* the same label, and two reports with the same ratio carry the same one. *)
BandOf(num, den) ==
    IF num > den THEN StrongBuy
    ELSE IF 2 * num > den THEN Buy
    ELSE IF num > 0 THEN Hold
    ELSE Sell

C6_FourBands ==
    \A i \in 1..Len(results) :
        IsMetrics(results[i]) =>
            /\ results[i].sharpe[2] > 0
            /\ results[i].rec = BandOf(results[i].sharpe[1], results[i].sharpe[2])
            /\ results[i].rec = generate_recommendation(results[i].sharpe)
            /\ \A j \in 1..Len(results) :
                  (IsMetrics(results[j])
                      /\ results[j].sharpe[1] * results[i].sharpe[2]
                            = results[i].sharpe[1] * results[j].sharpe[2])
                  => results[j].rec = results[i].rec

\* a report whose ratio is exactly 1 carries BUY
C6_Witness ==
    \E i \in 1..Len(results) :
        /\ IsMetrics(results[i])
        /\ results[i].sharpe[1] = results[i].sharpe[2]
        /\ results[i].rec = Buy

(* C7: the market cap string takes its unit from the thresholds: a         *)
(* positive value below 1,000,000 is a plain dollar amount, from 1,000,000 *)
(* it carries M, from 1,000,000,000 B, from 1,000,000,000,000 T; 999,999   *)
(* is plain and 1,000,000 is "$1.00M"; 0 or less gives "N/A".              *)
(* utils.format_market_cap gives the same string.                          *)
UnitOf(groups) ==
    CASE Len(groups) <= 2 -> ""
      [] Len(groups) = 3 -> "M"
      [] Len(groups) = 4 -> "B"
      [] OTHER -> "T"

C7_UnitByThreshold ==
    \A i \in 1..Len(results) :
        IsMetrics(results[i]) =>
            LET m == results[i].market_cap
                c == results[i].cap
            IN  /\ (m.neg \/ m.g = <<>>) => c = NA
                /\ (~m.neg /\ m.g # <<>>) => (~c.na /\ c.suffix = UnitOf(m.g))
                /\ m = Num(FALSE, <<999, 999>>) => c = Money(<<999, 999>>, 0, "")
                /\ m = Num(FALSE, <<1, 0, 0>>) => c = Money(<<1>>, 0, "M")
                /\ c = format_market_cap(m)

\* a report for a market cap of exactly 1,000,000
C7_Witness ==
    \E i \in 1..Len(results) :
        /\ IsMetrics(results[i])
        /\ results[i].market_cap = Num(FALSE, <<1, 0, 0>>)
        /\ results[i].cap.suffix = "M"

-----------------------------------------------------------------------------
(* Properties of the document routes.                                      *)

\* the calls of the LLM in a log, in order
LlmCalls(log) == SelectSeq(log, LAMBDA e : e.op \in {"llm_chunk", "llm_combine"})

\* the requests of process_document that carry a file
WithFile(r) == r.route = "process_document" /\ r.upload # NoUpload

\* the response is 400 {error} and nothing outside the handler was touched by
\* the request of thread t
Rejected(t) ==
    /\ reqs[t].pc = "done"
    /\ reqs[t].resp.status = 400
    /\ reqs[t].resp.kind = "error"
    /\ reqs[t].log = <<>>
    /\ t \notin tmp_files

(* C4: for every agent of agent_registry, a process_document request with  *)
(* a file whose extension is not a key of the agent's mime_types is        *)
(* answered 400 {error}, and no temp file is written and neither the       *)
(* processor, the LLM nor the vector store is called for it.               *)
C4_UnsupportedExtensionRejected ==
    \A t \in Threads : \A a \in DOMAIN agent_registry :
        (/\ WithFile(reqs[t])
         /\ reqs[t].agent_type \in (IF a = "summarizer" THEN {a, ""} ELSE {a})
         /\ reqs[t].upload.filename[2] \notin DOMAIN agent_registry[a].mime_types)
        => /\ Rejected(t)
           /\ reqs[t].resp.msg = <<"Unsupported file type for ", agent_registry[a].name,
                                   ": ", reqs[t].upload.filename[2]>>

\* C4: a.pdf sent to the finance agent has been rejected
C4_Witness ==
    /\ WithFile(reqs[1])
    /\ reqs[1].agent_type = "finance"
    /\ reqs[1].upload.filename = FileName("pdf")
    /\ reqs[1].upload.content > 0
    /\ Rejected(1)

\* an agent_type field that names no agent of the registry
Unregistered(field) == field # "" /\ field \notin DOMAIN agent_registry

\* the error message holds the agent type
Names(msg, agent_type) == \E k \in 1..Len(msg) : msg[k] = agent_type

(* C5, as stated: a process_document request whose agent_type is not a key *)
(* of agent_registry is answered 400 with an error that names the agent    *)
(* type, and no processor, temp file or external service is touched.       *)
C5_UnknownAgentNamed ==
    \A t \in Threads :
        (reqs[t].route = "process_document" /\ Unregistered(reqs[t].agent_type))
        => Rejected(t) /\ Names(reqs[t].resp.msg, reqs[t].agent_type)

(* C5, amended: a process_document request that carries a file and whose   *)
(* agent_type is not a key of agent_registry is answered 400 with an error *)
(* that names the agent type, and nothing is touched; without a file the   *)
(* answer is 400 "No file provided", and nothing is touched either.        *)
C5_UnknownAgentNamedWithFile ==
    \A t \in Threads :
        (reqs[t].route = "process_document" /\ Unregistered(reqs[t].agent_type))
        => /\ Rejected(t)
           /\ reqs[t].resp.msg = IF reqs[t].upload = NoUpload
                                 THEN <<"No file provided">>
                                 ELSE <<"Unknown agent type: ", reqs[t].agent_type>>

\* C5: a.txt sent to the agent type "education" has been rejected by name
C5_Witness ==
    /\ WithFile(reqs[1])
    /\ reqs[1].upload.filename = FileName("txt")
    /\ reqs[1].agent_type = "education"
    /\ Rejected(1)
    /\ Names(reqs[1].resp.msg, "education")

\* the number of combine calls in a log
Combines(log) == Len(SelectSeq(log, LAMBDA e : e.op = "llm_combine"))

(* C8: a request that returns a summary of a document of N chunks has made *)
(* exactly N per-chunk calls, on the chunks in their order, and then        *)
(* exactly one combine call, on the N summaries in order, whose output is  *)
(* the returned summary; and no request ever makes more than one combine   *)
(* call, or a per-chunk call out of the chunks' order.                     *)
C8_ChunkCallsThenOneCombine ==
    \A t \in Threads :
        LET r == reqs[t]
            llm == LlmCalls(r.log)
            N == Len(r.chunks)
        IN  /\ Combines(r.log) <= 1
            /\ \A j \in 1..Len(llm) :
                  j <= N => llm[j].op = "llm_chunk" /\ llm[j].arg = <<r.chunks[j]>>
            /\ (r.route = "process_document" /\ r.chunks # <<>>)
                  => r.chunks = ChunksOf(r.upload.content)
            /\ r.resp.kind = "summary"
                  => /\ Len(llm) = N + 1
                     /\ \A j \in 1..N : llm[j].ok
                     /\ llm[N + 1] =
                           Eff("llm_combine", [j \in 1..N |-> Summary(r.chunks[j])], TRUE)
                     /\ r.resp.summary = Combined(llm[N + 1].arg)
                     /\ r.resp.status = 200

(* C8: thread 1 has uploaded a single-chunk document and got its summary,  *)
(* and thread 2 has got the summary of a stored two-chunk document from    *)
(* /api/summarize.                                                         *)
C8_Witness ==
    /\ reqs[1].route = "process_document"
    /\ reqs[1].resp.kind = "summary"
    /\ Len(reqs[1].chunks) = 1
    /\ Combines(reqs[1].log) = 1
    /\ reqs[2].route = "summarize"
    /\ reqs[2].resp.kind = "summary"
    /\ Len(reqs[2].chunks) = 2

(* C9: when the per-chunk call of a chunk has failed, it is the last call  *)
(* of the LLM by the request (no later chunk, no combine), and the request *)
(* has ended with 500 {error} and without a summary.                       *)
C9_ChunkFailureAborts ==
    \A t \in Threads :
        LET r == reqs[t]
            llm == LlmCalls(r.log)
        IN  \A k \in 1..Len(llm) :
                (llm[k].op = "llm_chunk" /\ ~llm[k].ok)
                => /\ k = Len(llm)
                   /\ Combines(r.log) = 0
                   /\ r.pc = "done"
                   /\ r.resp.status = 500
                   /\ r.resp.kind = "error"
                   /\ r.resp.summary = <<>>

(* C9: the call on the first of two chunks has failed in process_document, *)
(* and the call on the second of two chunks has failed in /api/summarize.  *)
C9_Witness ==
    /\ reqs[1].route = "process_document"
    /\ Len(reqs[1].chunks) = 2
    /\ LlmCalls(reqs[1].log) = <<Eff("llm_chunk", <<reqs[1].chunks[1]>>, FALSE)>>
    /\ reqs[1].resp.status = 500
    /\ reqs[2].route = "summarize"
    /\ Len(reqs[2].chunks) = 2
    /\ Len(LlmCalls(reqs[2].log)) = 2
    /\ ~LlmCalls(reqs[2].log)[2].ok
    /\ reqs[2].resp.status = 500

(* C12: for every agent of agent_registry and every extension of its      *)
(* mime_types, a finished process_document request has a JSON response of  *)
(* the handler: {summary}, the agent's own JSON, or {error}.               *)
C12_EveryAgentAnswers ==
    \A t \in Threads : \A a \in DOMAIN agent_registry :
        (/\ WithFile(reqs[t])
         /\ reqs[t].pc = "done"
         /\ reqs[t].agent_type = a
         /\ reqs[t].upload.filename[2] \in DOMAIN agent_registry[a].mime_types)
        => reqs[t].resp.kind \in {"summary", "finance", "error"}

\* thread t executes line 190 in this step
Stores(t) == reqs[t].pc = "store" /\ reqs'[t].pc = "chunks"

(* C13: every ingested summarizer upload named f sets processed_docs[f] to *)
(* its own chunk list, over an earlier value and without an error or a     *)
(* warning; nothing else changes or removes an entry, so processed_docs[f] *)
(* is the chunk list of the most recent ingested upload named f; and       *)
(* /api/summarize with file_id f takes the chunk list that is there.       *)
C13_LatestUploadWins ==
    [][/\ \A t \in Threads :
             Stores(t) => /\ reqs[t].upload.filename \in DOMAIN processed_docs'
                          /\ processed_docs'[reqs[t].upload.filename]
                                = ChunksOf(reqs[t].upload.content)
                          /\ reqs'[t].resp = NoRsp
                          /\ reqs'[t].log = reqs[t].log
       /\ \A f \in DOMAIN processed_docs' :
             (f \notin DOMAIN processed_docs \/ processed_docs'[f] # processed_docs[f])
             => \E t \in Threads : Stores(t) /\ reqs[t].upload.filename = f
       /\ DOMAIN processed_docs \subseteq DOMAIN processed_docs'
       /\ \A t \in Threads :
             (reqs'[t].route = "summarize" /\ reqs[t].pc \in {"idle", "done"}
                 /\ reqs'[t].pc = "chunks")
             => reqs'[t].chunks = processed_docs[reqs'[t].file_id]
      ]_vars

(* C13: two uploads named a.txt, of one and of two chunks, have both been  *)
(* ingested and stored, and processed_docs holds the two chunks.           *)
C13_Witness ==
    /\ \A t \in Threads :
          /\ reqs[t].route = "process_document"
          /\ reqs[t].upload.filename = FileName("txt")
          /\ reqs[t].pc \in {"chunks", "done"}
          /\ reqs[t].chunks # <<>>
    /\ reqs[1].upload.content = 2
    /\ reqs[2].upload.content = 1
    /\ reqs[2].pc = "done"
    /\ processed_docs[FileName("txt")] = ChunksOf(2)

\* the request of thread t is a summarizer upload that has passed line 190
Stored(t) ==
    /\ reqs[t].route = "process_document"
    /\ AgentTypeOf(reqs[t].agent_type) = "summarizer"
    /\ reqs[t].pc \in {"chunks", "done"}
    /\ reqs[t].chunks # <<>>

(* C14: when the two threads serve summarizer uploads of the same file     *)
(* name at the same time and both have passed line 190, whatever the       *)
(* interleaving, processed_docs[filename] is there and is the whole chunk  *)
(* list of one of the two uploads, never a mixture.                        *)
C14_OneWholeChunkList ==
    (/\ mode = "race"
     /\ Stored(1)
     /\ Stored(2)
     /\ reqs[1].upload.filename = reqs[2].upload.filename)
    => /\ reqs[1].upload.filename \in DOMAIN processed_docs
       /\ processed_docs[reqs[1].upload.filename]
             \in {ChunksOf(reqs[1].upload.content), ChunksOf(reqs[2].upload.content)}

(* C14: both threads have completed an upload of a.txt and returned its    *)
(* summary; thread 2 has summarised its two chunks, and processed_docs     *)
(* holds the one chunk of thread 1.                                        *)
C14_Witness ==
    /\ mode = "race"
    /\ Stored(1) /\ Stored(2)
    /\ reqs[1].pc = "done" /\ reqs[2].pc = "done"
    /\ reqs[1].upload = Upload(FileName("txt"), 1)
    /\ reqs[2].upload = Upload(FileName("txt"), 2)
    /\ reqs[2].resp.kind = "summary"
    /\ processed_docs[FileName("txt")] = ChunksOf(1)

-----------------------------------------------------------------------------
(* Properties of all the POST routes.                                      *)

(* C10: a request of a POST route whose required field is absent is        *)
(* answered 4xx {error}, and neither the agent nor an external service has *)
(* been called for it: tickers of analyze_tickers, file of                 *)
(* process_document, file_id of summarize, and the fields of the prompt    *)
(* routes.                                                                 *)
C10_AbsentFieldRejected ==
    /\ (fin_req.route = "analyze_tickers" /\ fin_req.kind = "absent")
          => /\ fpc = "done"
             /\ fin_resp.status = 400
             /\ fin_resp.keys = {"error"}
             /\ events = <<>>
    /\ \A t \in Threads :
          \/ reqs[t].route = "process_document" /\ reqs[t].upload = NoUpload
          \/ reqs[t].route = "summarize" /\ reqs[t].file_id = NoFileId
          => Rejected(t)
    /\ (\E f \in DOMAIN rt.fields : rt.fields[f] = "absent")
          => /\ rt.resp.status \in 400..499
             /\ rt.resp.kind = "error"
             /\ rt.calls = <<>>

\* C10: answer_question has rejected a body with a topic and without a question
C10_Witness ==
    /\ rt.route = "answer_question"
    /\ rt.fields = [topic |-> "value", question |-> "absent"]
    /\ rt.resp.status = 400
    /\ rt.calls = <<>>

-----------------------------------------------------------------------------
(* Properties of the prompt routes.                                        *)

\* the response tells the client that the request failed
ReportsFailure(resp) == resp.kind \in {"error", "status_error"}

(* C11: every response of a prompt route that reports a failure has a 4xx  *)
(* or 5xx status and a body {error: <string>}.                             *)
C11_FailureIsErrorStatus ==
    ReportsFailure(rt.resp) => rt.resp.status \in 400..599 /\ rt.resp.kind = "error"

\* an external call that the operation made has failed
CallFailed == \E k \in 1..Len(rt.calls) : rt.calls[k] \in rt.faults

(* C21: when the chat completion, the search or the HTML fetch inside a    *)
(* marketing, healthcare or education operation fails, the response of the *)
(* route is a top-level error object, never a result whose generated text  *)
(* is missing.                                                             *)
C21_FailedCallIsErrorObject ==
    CallFailed =>
        /\ rt.resp.kind \in {"error", "status_error"}
        /\ ~(rt.resp.kind = "result" /\ rt.resp.text = FALSE)

(* C15: agent_registry is what it was at process start in every reachable  *)
(* state, whatever requests were served, and GET /api/agents and GET       *)
(* /health report the ids summarizer, finance, marketing and healthcare.   *)
C15_RegistryFixed ==
    /\ registry = agent_registry
    /\ rt.route \in {"get_agents", "health_check"}
          => rt.resp.ids = {"summarizer", "finance", "marketing", "healthcare"}

(* C15: GET /health has answered after a document was stored and an upload *)
(* for the marketing agent was served.                                     *)
C15_Witness ==
    /\ rt.route = "health_check"
    /\ rt.resp.ids = {"summarizer", "finance", "marketing", "healthcare"}
    /\ processed_docs # <<>>
    /\ reqs[1].route = "process_document"
    /\ reqs[1].agent_type = "marketing"
    /\ reqs[1].pc = "done"

\* the text holds a JSON object from its first opening brace to its last
\* closing brace
HoldsObject(text) ==
    \E i, j \in 1..Len(text) :
        /\ text[i] = "{" /\ \A k \in 1..(i - 1) : text[k] # "{"
        /\ text[j] = "}" /\ \A k \in (j + 1)..Len(text) : text[k] # "}"
        /\ i < j
        /\ IsObject(SubSeq(text, i, j))

\* search_resources got a completion for a request with a topic
Completed == rt.route = "search_resources" /\ rt.calls = <<"tavily", "llm">>
                /\ "llm" \notin rt.faults

(* C16: when the completion of search_resources holds no parseable JSON    *)
(* object (no braces at all, or malformed JSON between the first opening   *)
(* and the last closing brace), the response is {} with status 200.        *)
C16_UnparseableIsEmptyObject ==
    (Completed /\ ~HoldsObject(rt.completion))
    => rt.resp.status = 200 /\ rt.resp.kind = "empty"

(* C16: the completion was an object followed by a stray closing brace.    *)
C16_Witness ==
    /\ Completed
    /\ rt.completion = <<"{", "}", "}">>
    /\ rt.resp.status = 200
    /\ rt.resp.kind = "empty"

\* C16: the completion held no brace at all
C16_WitnessNoBraces ==
    /\ Completed
    /\ rt.completion = <<"p", "p">>
    /\ rt.resp.kind = "empty"

-----------------------------------------------------------------------------
(* Properties of the retry loop and of the value _analyze_tickers returns. *)

\* the adapter calls and the sleeps made for the ticker of index i, in order
CallsFor(i) == SelectSeq(events, LAMBDA e : e.i = i /\ e.op # "except")

\* a call that failed: yf.Ticker raised, history raised or gave an empty frame
Failure(e) ==
    \/ e.op = "Ticker" /\ e.out = "raise"
    \/ e.op = "history" /\ e.out \in {"raise", "empty"}

\* the number of fetch attempts in a sequence of calls
Attempts(evs) == Len(SelectSeq(evs, LAMBDA e : e.op = "Ticker"))

\* the retry loop of the ticker of index i is over
LoopOver(i) == i < ti \/ (i = ti /\ fpc \in {"analyze", "return", "done"})

(* The order of the calls made for one ticker: a fetch is retried only     *)
(* after a failed fetch and after a sleep of one second, every sleep lasts *)
(* one second, and nothing is fetched after a non-empty history.           *)
RetryOrder(evs) ==
    \A k \in 1..Len(evs) :
        /\ (evs[k].op = "Ticker" /\ k > 1)
              => evs[k - 1].op = "sleep" /\ k > 2 /\ Failure(evs[k - 2])
        /\ evs[k].op = "sleep" => evs[k].out = "1s" /\ k > 1 /\ Failure(evs[k - 1])
        /\ (evs[k].op = "history" /\ evs[k].out = "data") => k = Len(evs)
        /\ evs[k].op = "history" => k > 1 /\ evs[k - 1].op = "Ticker" /\ evs[k - 1].out = "ok"

(* C17, as stated: the fetch of a ticker is retried only after an empty    *)
(* result or an exception, after a wait of one second, it stops at the     *)
(* first non-empty history, and it is retried up to 3 times: a ticker      *)
(* whose fetches all fail is given up after the first fetch and 3 retries. *)
C17_ThreeRetries ==
    \A i \in 1..Len(tickers) :
        LET evs == CallsFor(i)
        IN  /\ RetryOrder(evs)
            /\ Attempts(evs) <= 1 + 3
            /\ (LoopOver(i) /\ \A k \in 1..Len(evs) : evs[k].out # "data")
                  => Attempts(evs) = 1 + 3

(* C17, amended: the fetch of a ticker is retried only after an empty      *)
(* result or an exception, after a wait of one second, and it stops at the *)
(* first non-empty history; there are at most 3 fetches of a ticker, the   *)
(* first one and up to 2 retries, and a ticker whose 3 fetches all fail is *)
(* given up after the one-second wait that follows the third.              *)
C17_ThreeAttempts ==
    \A i \in 1..Len(tickers) :
        LET evs == CallsFor(i)
        IN  /\ RetryOrder(evs)
            /\ Attempts(evs) <= 3
            /\ (LoopOver(i) /\ \A k \in 1..Len(evs) : evs[k].out # "data")
                  => /\ Attempts(evs) = 3
                     /\ evs[Len(evs)].op = "sleep"
            /\ (LoopOver(i) /\ i \in 1..Len(tickers)) => evs # <<>>

(* C17: the first ticker was fetched three times in vain (an empty frame,  *)
(* an exception of history, an exception of yf.Ticker), and the second was *)
(* fetched twice and got its history at the retry.                         *)
C17_Witness ==
    /\ Len(tickers) = 2
    /\ CallsFor(1) = <<Ev("Ticker", 1, "ok"), Ev("history", 1, "empty"), Ev("sleep", 1, "1s"),
                       Ev("Ticker", 1, "ok"), Ev("history", 1, "raise"), Ev("sleep", 1, "1s"),
                       Ev("Ticker", 1, "raise"), Ev("sleep", 1, "1s")>>
    /\ CallsFor(2) = <<Ev("Ticker", 2, "ok"), Ev("history", 2, "empty"), Ev("sleep", 2, "1s"),
                       Ev("Ticker", 2, "ok"), Ev("history", 2, "data")>>
    /\ fpc = "done"

\* _analyze_tickers has returned
Returned == fpc = "done" /\ tickers # <<>>

RECURSIVE ChartsFollow(_, _)
(* The charts ch are charts of records of res, in the order of res and at  *)
(* most one for a record: ch is matched by ticker with a subsequence of    *)
(* res.                                                                    *)
ChartsFollow(ch, res) ==
    IF ch = <<>> THEN TRUE
    ELSE IF res = <<>> THEN FALSE
    ELSE IF Head(ch).ticker = Head(res).ticker /\ ChartsFollow(Tail(ch), Tail(res))
    THEN TRUE
    ELSE ChartsFollow(ch, Tail(res))

(* C18, as stated: the results and the charts that _analyze_tickers        *)
(* returns have the same length, and the i-th chart carries the ticker of  *)
(* the i-th result record.                                                 *)
C18_ChartsParallel ==
    Returned =>
        /\ Len(fin_resp.charts) = Len(fin_resp.results)
        /\ \A i \in 1..Len(fin_resp.charts) :
              fin_resp.charts[i].ticker = fin_resp.results[i].ticker

(* C18, amended: the charts that _analyze_tickers returns are never more   *)
(* than the results; each chart carries the ticker of a result record, the *)
(* charts are in the order of their records, with at most one chart for a  *)
(* record; a record without a rendered chart (every status record of a     *)
(* ticker without usable history) has no entry in charts, so the i-th      *)
(* chart need not belong to the i-th record.                               *)
C18_ChartsFollowResults ==
    /\ ChartsFollow(charts, results)
    /\ Len(charts) <= Len(results)
    /\ Returned =>
          /\ ChartsFollow(fin_resp.charts, fin_resp.results)
          /\ Len(fin_resp.charts) <= Len(fin_resp.results)
          /\ \A i \in 1..Len(fin_resp.results) :
                fin_resp.results[i].status \in {NoData, Insufficient}
                => Len(fin_resp.charts) < Len(fin_resp.results)

(* C18: the first of two tickers had no data and the second has metrics:   *)
(* the only chart is the chart of the second record.                       *)
C18_Witness ==
    /\ Returned
    /\ Len(fin_resp.results) = 2
    /\ fin_resp.results[1].status = NoData
    /\ IsMetrics(fin_resp.results[2])
    /\ Len(fin_resp.charts) = 1
    /\ fin_resp.charts[1].ticker = fin_resp.results[2].ticker
    /\ fin_resp.charts[1].ticker # fin_resp.results[1].ticker

\* POST /api/analyze_tickers was answered to a request with a non-empty list
AnsweredList ==
    /\ fin_req.route = "analyze_tickers"
    /\ fin_req.kind = "list"
    /\ fin_req.list # <<>>
    /\ fpc = "done"

(* C19: every response of POST /api/analyze_tickers to a request with a    *)
(* non-empty tickers list holds a results list and a charts list, also     *)
(* when no entry of the list is a valid ticker and when the analysis       *)
(* raises.                                                                 *)
C19_ResultsAndCharts ==
    AnsweredList =>
        /\ {"results", "charts"} \subseteq fin_resp.keys
        /\ fin_resp.status \in {200, 500}
        /\ fin_resp.status = 500 =>
              /\ Len(fin_resp.results) = Len(fin_req.list)
              /\ fin_resp.charts = <<>>
        /\ NormalizeTickers(fin_req.list) = <<>> =>
              fin_resp = Resp(200, {"results", "charts", "message"}, <<>>, <<>>)

\* C19: the analysis of a list was done and its serialisation raised
C19_Witness ==
    /\ AnsweredList
    /\ fin_resp.status = 500
    /\ fin_resp.keys = {"results", "charts", "error"}
    /\ results # <<>>

\* C19: a list of one entry that is no ticker was answered
C19_WitnessNoValid ==
    /\ AnsweredList
    /\ Len(fin_req.list) = 1
    /\ NormalizeTickers(fin_req.list) = <<>>
    /\ "message" \in fin_resp.keys

(* C20: every result record with metrics for a ticker is computed from a   *)
(* history fetched for that ticker in its own loop iteration; a ticker     *)
(* whose fetch attempts all raise never receives metrics or a chart        *)
(* derived from the history of a ticker processed earlier in the batch.    *)
C20_OwnHistory ==
    /\ \A i \in 1..Len(results) :
          /\ IsMetrics(results[i]) => results[i].src = i
          /\ FetchAlwaysRaised(i) => ~IsMetrics(results[i])
    /\ \A k \in 1..Len(charts) :
          /\ charts[k].src \in 1..Len(tickers)
          /\ tickers[charts[k].src] = charts[k].ticker

\* the summarizer upload of thread t has passed the checks of lines 143-170
\* and process_document has returned
SummarizerUploadDone(t) ==
    /\ WithFile(reqs[t])
    /\ AgentTypeOf(reqs[t].agent_type) = "summarizer"
    /\ reqs[t].pc = "done"
    /\ reqs[t].log # <<>>

(* C22: every file type of the summarizer's supported_types is dispatched  *)
(* by process_document to a loader of its own and ingested; process_file   *)
(* refuses none of them as unsupported.                                    *)
C22_ListedTypesAreLoaded ==
    \A t \in Threads :
        (/\ SummarizerUploadDone(t)
         /\ \E k \in 1..Len(agent_registry["summarizer"].supported_types) :
               agent_registry["summarizer"].supported_types[k] = FileExt(reqs[t].upload.filename))
        => /\ LoaderOf(agent_registry["summarizer"].mime_types[FileExt(reqs[t].upload.filename)])
                 \in {"TextLoader", "CSVLoader", "PyPDFLoader"}
           /\ reqs[t].resp.msg = <<>> \/ reqs[t].resp.msg[1] # "Unsupported file type: "

\* the records that _analyze_tickers has appended when it is at fpc
DoneTickers == IF fpc \in {"fetch", "analyze"} THEN ti - 1 ELSE Len(tickers)

(* C23: _analyze_tickers appends exactly one record for each ticker of its *)
(* list, in the order of the list, so it returns one record per ticker     *)
(* (at most 5 through process_tickers or process_file); a record is a      *)
(* status record or a metrics record and never both; and an iteration      *)
(* appends at most one chart, which carries the ticker of its record.      *)
C23_OneRecordPerTicker ==
    /\ [](/\ Len(tickers) <= TickerLimit
          /\ Len(results) = DoneTickers
          /\ Len(charts) <= Len(results)
          /\ \A i \in 1..Len(results) :
                /\ results[i].ticker = tickers[i]
                /\ "status" \in results[i].keys \/ "metrics" \in results[i].keys
                /\ ~("status" \in results[i].keys /\ "metrics" \in results[i].keys)
                /\ "status" \in results[i].keys <=> results[i].status # "")
    /\ [][/\ Len(results') >= Len(results) => SubSeq(results', 1, Len(results)) = results
          /\ Len(charts') >= Len(charts) => SubSeq(charts', 1, Len(charts)) = charts
          /\ Len(charts') <= Len(charts) + 1
          /\ Len(charts') = Len(charts) + 1 =>
                /\ Len(results') = Len(results) + 1
                /\ charts'[Len(charts')].ticker = tickers[Len(results')]
          /\ fpc' # "idle" => Len(results') >= Len(results) /\ Len(charts') >= Len(charts)
         ]_vars

(* C23: a list of two tickers has been analysed; the first record is a     *)
(* status record, the second a metrics record, and there is one chart.     *)
C23_Witness ==
    /\ fpc = "done"
    /\ Len(tickers) = 2
    /\ Len(results) = 2
    /\ IsStatus(results[1])
    /\ IsMetrics(results[2])
    /\ Len(charts) = 1

\* C23: a list of more than five tickers has been analysed: five records
C23_WitnessLimit ==
    /\ fpc = "done"
    /\ Len(fin_req.list) > TickerLimit
    /\ Len(results) = TickerLimit

(* C24: every symbol that process_tickers hands to _analyze_tickers is a   *)
(* non-empty string, trimmed and in upper case; the empty and the          *)
(* whitespace-only entries of the input are discarded and do not count     *)
(* toward the limit of 5.                                                  *)
C24_SymbolsAreClean ==
    fin_req.route = "analyze_tickers" =>
        /\ \A i \in 1..Len(tickers) :
              /\ tickers[i] # <<>>
              /\ Strip(tickers[i]) = tickers[i]
              /\ Upper(tickers[i]) = tickers[i]
        /\ fpc \notin {"idle", "done"} =>
              LET kept == SelectSeq(fin_req.list,
                                    LAMBDA e : e.kind # "none" /\ Strip(Str(e)) # <<>>)
              IN  Len(tickers) = (IF Len(kept) < TickerLimit THEN Len(kept) ELSE TickerLimit)

\* the upload of thread t was ingested: the loader, the splitter and the
\* vector store have run (process_file has returned its chunks)
Ingested(t) ==
    /\ reqs[t].route = "process_document"
    /\ \E k \in 1..Len(reqs[t].log) : reqs[t].log[k].op = "vector_store"

\* thread t starts a request of /api/summarize in this step
Summarizes(t) ==
    /\ reqs[t].pc \in {"idle", "done"}
    /\ reqs'[t] # reqs[t]
    /\ reqs'[t].route = "summarize"
    /\ reqs'[t].log = <<>>

(* C25: in process_document for the summarizer, processed_docs[filename]   *)
(* is written once ingestion has succeeded and before any LLM call; when   *)
(* the summarization that follows fails with 500 the entry stays; and a    *)
(* later /api/summarize with that file name is accepted and summarises     *)
(* those chunks.                                                           *)
C25_StoredBeforeSummarizing ==
    /\ [](\A t \in Threads :
            /\ reqs[t].pc = "store" => LlmCalls(reqs[t].log) = <<>>
            /\ Ingested(t) /\ reqs[t].pc # "store" =>
                  reqs[t].upload.filename \in DOMAIN processed_docs
            /\ Ingested(t) /\ mode = "serial" /\ reqs[t].pc # "store" =>
                  processed_docs[reqs[t].upload.filename] = reqs[t].chunks)
    /\ [][\A t \in Threads :
            /\ Summarizes(t) /\ reqs'[t].file_id \in DOMAIN processed_docs =>
                  /\ reqs'[t].pc = "chunks"
                  /\ reqs'[t].chunks = processed_docs[reqs'[t].file_id]
            /\ (/\ Summarizes(t)
                /\ Ingested(t)
                /\ reqs[t].resp.status = 500
                /\ reqs'[t].file_id = reqs[t].upload.filename
                /\ mode = "serial") =>
                  /\ reqs'[t].pc = "chunks"
                  /\ reqs'[t].chunks = ChunksOf(reqs[t].upload.content)
         ]_vars

(* C25: the upload of a.txt by thread 1 was ingested and its summarization *)
(* failed with 500; thread 2 has then summarised a.txt, both chunks.       *)
C25_Witness ==
    /\ Ingested(1)
    /\ reqs[1].pc = "done"
    /\ reqs[1].resp.status = 500
    /\ reqs[1].upload = Upload(FileName("txt"), 2)
    /\ \E k \in 1..Len(reqs[1].log) : reqs[1].log[k].op = "llm_chunk" /\ ~reqs[1].log[k].ok
    /\ reqs[2].route = "summarize"
    /\ reqs[2].file_id = FileName("txt")
    /\ reqs[2].pc = "done"
    /\ reqs[2].resp.kind = "summary"
    /\ reqs[2].chunks = ChunksOf(2)
    /\ Len(LlmCalls(reqs[2].log)) = 3

\* the entries of a log with the operation op
Effects(log, op) == SelectSeq(log, LAMBDA e : e.op = op)

C26_WitnessRaised ==
    /\ reqs[1].route = "process_document"
    /\ reqs[1].pc = "done"
    /\ \E k \in 1..Len(reqs[1].log) : reqs[1].log[k].op = "processor" /\ ~reqs[1].log[k].ok
    /\ tmp_files = {}

\* the calls of yf.Ticker(...).history for the ticker of index i
HistoryCalls(i) == SelectSeq(events, LAMBDA e : e.op = "history" /\ e.i = i)

\* _analyze_tickers is running
Analyzing == fpc \in {"fetch", "analyze", "return"}

(* C27: when every call of the market-data adapter returns or raises,      *)
(* _analyze_tickers terminates for every ticker list, after at most 3      *)
(* history fetches for a ticker and so at most 15 for a batch of           *)
(* process_tickers or process_file.                                        *)
C27_TerminatesInFifteenFetches ==
    /\ [](/\ \A i \in 1..Len(tickers) :
                /\ Len(HistoryCalls(i)) <= 3
                /\ Len(SelectSeq(events, LAMBDA e : e.op = "Ticker" /\ e.i = i)) <= 3
          /\ Len(SelectSeq(events, LAMBDA e : e.op = "history")) <= 3 * Len(tickers)
          /\ Len(tickers) <= TickerLimit
          /\ 3 * TickerLimit = 15
          /\ \A k \in 1..Len(events) : events[k].i \in 1..Len(tickers)
          /\ retry_count <= 3)
    /\ (Analyzing ~> fpc = "done")

(* C27: the analysis of two tickers has ended after three history fetches  *)
(* for each of them, none of which gave data.                              *)
C27_Witness ==
    /\ fpc = "done"
    /\ Len(tickers) = 2
    /\ \A i \in 1..2 :
          /\ Len(HistoryCalls(i)) = 3
          /\ \A k \in 1..3 : HistoryCalls(i)[k].out \in {"empty", "raise"}
    /\ Len(results) = 2

\* the record of index i was computed from the frame that hist holds
ComputedFromHist(i) ==
    /\ IsMetrics(results[i])
    /\ hist.state = "data"
    /\ hist.owner = results[i].src

(* C28: the Sharpe-like ratio of a report is the annualised return divided *)
(* by the annualised volatility when the volatility is greater than 0 and  *)
(* is 0 when the volatility is 0: nothing is ever divided by zero, and a   *)
(* history of zero volatility is always in the SELL band;                  *)
(* utils.calculate_metrics computes the same ratio.                        *)
C28_SharpeGuarded ==
    \A i \in 1..Len(results) :
        /\ IsMetrics(results[i]) => results[i].sharpe[2] > 0
        /\ ComputedFromHist(i) =>
              /\ hist.vol > 0 => results[i].sharpe = <<hist.ret, hist.vol>>
              /\ hist.vol = 0 => /\ results[i].sharpe = <<0, 1>>
                                 /\ results[i].rec = Sell
              /\ results[i].sharpe = calculate_metrics(hist.ret, hist.vol)

(* C28: a history with a positive return and zero volatility has been      *)
(* analysed, and its report carries SELL.                                  *)
C28_Witness ==
    /\ Len(results) = 1
    /\ ComputedFromHist(1)
    /\ hist.vol = 0
    /\ hist.ret > 0
    /\ results[1].sharpe = <<0, 1>>
    /\ results[1].rec = Sell

\* hist is a non-empty frame fetched for the ticker of index i, whose Close
\* column gives fewer than 5 daily returns
FewReturns(i) ==
    /\ hist.owner = i
    /\ hist.state = "data"
    /\ hist.cols = "all"
    /\ hist.n < 5

(* C29: a ticker whose non-empty history yields fewer than 5 daily returns *)
(* gets the status record "Insufficient price history", and no metrics,    *)
(* chart or recommendation; the batch continues with the next ticker.      *)
C29_FewReturnsIsInsufficient ==
    \A i \in 1..Len(results) :
        /\ FewReturns(i) =>
              /\ results[i] = StatusRec(tickers[i], Insufficient)
              /\ ~IsMetrics(results[i])
              /\ results[i].rec = ""
              /\ \A k \in 1..Len(charts) : charts[k].src # i
        /\ results[i].status = Insufficient =>
              /\ i < Len(tickers) => ti > i
              /\ fpc = "done" => Len(results) = Len(tickers)

(* C29: the first of two tickers had a history of four returns and the     *)
(* second has been analysed after it.                                      *)
C29_Witness ==
    /\ fpc = "done"
    /\ Len(results) = 2
    /\ results[1].status = Insufficient
    /\ IsMetrics(results[2])
    /\ Len(charts) = 1

\* C29: the record of a history of four returns has just been appended
C29_WitnessFrame ==
    /\ Len(results) = 1
    /\ FewReturns(1)
    /\ hist.n = 4
    /\ results[1].status = Insufficient
    /\ charts = <<>>

(* C30: no request removes a key from processed_docs, and every key is a   *)
(* file name that /api/summarize accepts: once a file name has been        *)
(* ingested by the summarizer, a request of /api/summarize with it is      *)
(* accepted in every later state.                                          *)
C30_KeysNeverRemoved ==
    /\ [](\A f \in DOMAIN processed_docs : f \notin {NoFileId, EmptyFileId})
    /\ [][/\ DOMAIN processed_docs \subseteq DOMAIN processed_docs'
          /\ \A t \in Threads :
                (Summarizes(t) /\ reqs'[t].file_id \in DOMAIN processed_docs) =>
                    /\ reqs'[t].resp = NoRsp
                    /\ reqs'[t].pc = "chunks"
         ]_vars

(* C30: a.txt was ingested, then a.pdf and a.csv, and /api/summarize has   *)
(* then been answered with the summary of a.txt.                           *)
C30_Witness ==
    /\ {FileName("txt"), FileName("pdf"), FileName("csv")} \subseteq DOMAIN processed_docs
    /\ reqs[1].route = "summarize"
    /\ reqs[1].file_id = FileName("txt")
    /\ reqs[1].pc = "done"
    /\ reqs[1].resp.kind = "summary"

=============================================================================
